---- MODULE Spec2Model ----
(***************************************************************************)
(* Calypso / blue: tangling of literate source files.                      *)
(*                                                                         *)
(* Texts are sequences of one-character strings.  The store of the         *)
(* database-backed scanner (src/blue/scanner.py over src/blue/database.py  *)
(* and src/blue/db_gateway.py) is modelled table by table; every pipeline  *)
(* stage is one action.                                                    *)
(***************************************************************************)
EXTENDS Integers, Sequences, FiniteSets, TLC

VARIABLES
    files,              \* the file system: path -> text of the file
    parser_state,       \* parser_state.current_parser_state (1..8)
    document_section,   \* table document_section, in id order
    fragment,           \* table fragment, in id order
    code_section_name,  \* table code_section_name: the full names
    non_root,           \* table non_root_code_section_name
    resolved_code,      \* table resolved_code: name -> text
    last_error,         \* what the last call raised ("" when it returned)
    failed_runs,        \* how many stage runs raised a scanner error so far
    code_files          \* what get_code_files returned last

vars == <<files, parser_state, document_section, fragment, code_section_name,
          non_root, resolved_code, last_error, failed_runs, code_files>>

----------------------------------------------------------------------------
(* Characters and Python string primitives *)

NL == "\n"
SP == " "
TAB == "\t"
CR == "\r"
BS == "\\"
NoName == <<"">>        \* a NULL name column: not a text, not even the empty one
NoError == ""
EmptyMap == [n \in {} |-> <<>>]

Whitespace == {SP, TAB, NL, CR}

startswith(s, p) ==
    /\ Len(p) <= Len(s)
    /\ SubSeq(s, 1, Len(p)) = p

endswith(s, p) ==
    /\ Len(p) <= Len(s)
    /\ SubSeq(s, Len(s) - Len(p) + 1, Len(s)) = p

\* s[i:] with a 1-based i
DropTo(s, i) == SubSeq(s, i, Len(s))

RECURSIVE lstrip(_)
lstrip(s) ==
    IF s # <<>> /\ Head(s) \in Whitespace THEN lstrip(Tail(s)) ELSE s

RECURSIVE rstrip(_, _)
rstrip(s, chars) ==
    IF s # <<>> /\ s[Len(s)] \in chars THEN rstrip(SubSeq(s, 1, Len(s) - 1), chars) ELSE s

strip(s) == rstrip(lstrip(s), Whitespace)

\* the first index i >= from with s[i .. i+Len(p)-1] = p, or 0
RECURSIVE find(_, _, _)
find(s, p, from) ==
    IF from + Len(p) - 1 > Len(s) THEN 0
    ELSE IF SubSeq(s, from, from + Len(p) - 1) = p THEN from
    ELSE find(s, p, from + 1)

contains(s, p) == find(s, p, 1) # 0

\* str.splitlines(keepends=True); the texts here break lines at \n and \r only
RECURSIVE splitlines(_)
splitlines(s) ==
    IF s = <<>> THEN <<>>
    ELSE LET n == find(s, <<NL>>, 1)
             r == find(s, <<CR>>, 1)
             cut == IF r # 0 /\ (n = 0 \/ r < n)
                      THEN (IF r < Len(s) /\ s[r + 1] = NL THEN r + 1 ELSE r)
                      ELSE n
         IN IF cut = 0 THEN <<s>>
            ELSE <<SubSeq(s, 1, cut)>> \o splitlines(DropTo(s, cut + 1))

\* open(path, "r"): universal newlines turn \r\n and \r into \n
RECURSIVE universal_newlines(_)
universal_newlines(s) ==
    IF s = <<>> THEN <<>>
    ELSE IF Head(s) = CR
         THEN IF Len(s) > 1 /\ s[2] = NL
              THEN <<NL>> \o universal_newlines(DropTo(s, 3))
              ELSE <<NL>> \o universal_newlines(Tail(s))
         ELSE <<Head(s)>> \o universal_newlines(Tail(s))

\* "for line in f": the lines of the file, each with its newline
RECURSIVE file_lines(_)
file_lines(s) ==
    IF s = <<>> THEN <<>>
    ELSE LET n == find(s, <<NL>>, 1)
         IN IF n = 0 THEN <<s>>
            ELSE <<SubSeq(s, 1, n)>> \o file_lines(DropTo(s, n + 1))

----------------------------------------------------------------------------
(* The patterns of src/blue/base/patterns.py *)

OPEN == <<"<", "<">>
CLOSE == <<">", ">">>
ELLIPSIS == <<".", ".", ".">>
INCLUDE_OPEN == <<"@", "i", "n", "c", "l", "u", "d", "e", "(">>

\* "$" matches at the end of the line or before its final newline
chomp(line) == IF endswith(line, <<NL>>) THEN SubSeq(line, 1, Len(line) - 1) ELSE line

\* r"^@$"
DOCUMENTATION_BLOCK_START_PATTERN(line) == chomp(line) = <<"@">>

\* r"^<<(.*)>>=$": [matched, group 1]
CODE_BLOCK_START_PATTERN(line) ==
    LET l == chomp(line)
        ok == /\ Len(l) >= 5
              /\ startswith(l, OPEN)
              /\ endswith(l, CLOSE \o <<"=">>)
    IN [matched |-> ok, group1 |-> IF ok THEN SubSeq(l, 3, Len(l) - 3) ELSE <<>>]

\* r"^@include\((.*)\)$": [matched, group 1]
INCLUDE_STATEMENT_PATTERN(line) ==
    LET l == chomp(line)
        ok == /\ Len(l) >= Len(INCLUDE_OPEN) + 1
              /\ startswith(l, INCLUDE_OPEN)
              /\ endswith(l, <<")">>)
    IN [matched |-> ok,
        group1 |-> IF ok THEN SubSeq(l, Len(INCLUDE_OPEN) + 1, Len(l) - 1) ELSE <<>>]

\* r"<<|>>"
BAD_SECTION_NAME_PATTERN(name) == contains(name, OPEN) \/ contains(name, CLOSE)

\* the end (exclusive) of the run of spaces and tabs that starts at i
RECURSIVE indent_end(_, _)
indent_end(s, i) ==
    IF i <= Len(s) /\ s[i] \in {SP, TAB} THEN indent_end(s, i + 1) ELSE i

\* the first ">>" at or after i that no newline precedes, or 0
RECURSIVE closing(_, _)
closing(s, i) ==
    IF i + 1 > Len(s) THEN 0
    ELSE IF SubSeq(s, i, i + 1) = CLOSE THEN i
    ELSE IF s[i] = NL THEN 0
    ELSE closing(s, i + 1)

\* CODE_BLOCK_REFERENCE_PATTERN: the leftmost match that starts at or after
\* from: (?P<indent>[ \t]*)(?P<complete_reference><<(?P<name>.*?)>>)
RECURSIVE CODE_BLOCK_REFERENCE_PATTERN(_, _)
CODE_BLOCK_REFERENCE_PATTERN(s, from) ==
    IF from > Len(s) THEN [matched |-> FALSE]
    ELSE LET e == indent_end(s, from)
             q == IF e + 1 <= Len(s) /\ SubSeq(s, e, e + 1) = OPEN
                  THEN closing(s, e + 2) ELSE 0
         IN IF q # 0
            THEN [matched |-> TRUE,
                  indent |-> SubSeq(s, from, e - 1),
                  start |-> e,                       \* match.start("complete_reference")
                  end |-> q + 2,                     \* match.end("complete_reference")
                  name |-> SubSeq(s, e + 2, q - 1)]
            ELSE CODE_BLOCK_REFERENCE_PATTERN(s, from + 1)

----------------------------------------------------------------------------
(* The store: src/blue/database.py and src/blue/db_gateway.py *)

\* INSERT INTO document_section (kind, is_included, name, data)
write_document_section(sections, kind, data, is_included, name) ==
    Append(sections, [kind |-> kind, is_included |-> is_included, name |-> name,
                      data |-> data, presentation_number |-> 0])

\* INSERT INTO fragment (kind, parent_id, data, indent)
write_fragment(fragments, kind, parent_id, data, indent) ==
    Append(fragments, [kind |-> kind, parent_id |-> parent_id, data |-> data,
                       indent |-> indent, parent_name |-> NoName])

----------------------------------------------------------------------------
(* Stage 1: split_source_document_into_sections *)

DocumentationSectionInProgress == [kind |-> "documentation", name |-> NoName, data |-> <<>>]

CodeSectionInProgress(name) == [kind |-> "code", name |-> name, data |-> <<>>]

\* the close that takes every newline off the end of a code section
close_all_newlines_stripped(current, is_included, sections) ==
    IF current.kind = "documentation"
    THEN IF current.data # <<>>
         THEN write_document_section(sections, "documentation", current.data, is_included, NoName)
         ELSE sections
    ELSE write_document_section(sections, "code", rstrip(current.data, {NL}), is_included,
                                current.name)

\* DocumentationSectionInProgress.close and CodeSectionInProgress.close
close(current, is_included, sections) ==
    IF current.kind = "documentation"
    THEN IF current.data # <<>>
         THEN write_document_section(sections, "documentation", current.data, is_included, NoName)
         ELSE sections
    ELSE LET data == IF endswith(current.data, <<NL>>)
                     THEN SubSeq(current.data, 1, Len(current.data) - 1)
                     ELSE current.data
         IN write_document_section(sections, "code", data, is_included, current.name)

\* Path.parent: the path without its last component ("." is the empty path)
RECURSIVE parent_of(_)
parent_of(path) ==
    IF path = <<>> THEN <<>>
    ELSE IF path[Len(path)] = "/" THEN SubSeq(path, 1, Len(path) - 1)
    ELSE parent_of(SubSeq(path, 1, Len(path) - 1))

\* current_working_directory / relative_path: the components are put one
\* after the other, and ".." is kept as it is written
joinpath(current_working_directory, relative_path) ==
    IF current_working_directory = <<>> THEN relative_path
    ELSE current_working_directory \o <<"/">> \o relative_path

MaxPathLen == 12     \* the longest path that open() takes

\* the directory of the root file holds one directory, x
UP == <<"x", "/", ".", ".", "/">>

\* the file that open(path) reaches: x/.. is the directory itself
RECURSIVE realpath(_)
realpath(path) == IF startswith(path, UP) THEN realpath(DropTo(path, Len(UP) + 1)) ELSE path

\* scan_file.  The result is the table after the scan and the exception
\* raised, if any; open(path) fails when the path is longer than the system
\* takes or names no file.
RECURSIVE scan_file(_, _, _, _)
RECURSIVE scan_lines(_, _, _, _, _, _)

\* the scan that takes up the section again after an include line
scan_lines_section_resumed(lines, path, path_stack, is_included, current, sections) ==
    IF lines = <<>>
    THEN [sections |-> close(current, is_included, sections), err |-> NoError]
    ELSE
      LET line == Head(lines)
          code_start == CODE_BLOCK_START_PATTERN(line)
          include == INCLUDE_STATEMENT_PATTERN(line)
      IN IF code_start.matched
         THEN LET closed == close(current, is_included, sections)
                  new_code_section_name == strip(code_start.group1)
              IN IF new_code_section_name = <<>>
                 THEN [sections |-> closed, err |-> "BadSectionNameError"]
                 ELSE IF BAD_SECTION_NAME_PATTERN(new_code_section_name)
                 THEN [sections |-> closed, err |-> "BadSectionNameError"]
                 ELSE scan_lines(Tail(lines), path, path_stack, is_included,
                                 CodeSectionInProgress(new_code_section_name), closed)
         ELSE IF DOCUMENTATION_BLOCK_START_PATTERN(line)
         THEN scan_lines(Tail(lines), path, path_stack, is_included,
                         DocumentationSectionInProgress,
                         close(current, is_included, sections))
         ELSE IF include.matched
         THEN LET relative_path == include.group1
                  current_working_directory == parent_of(path)
                  inner == scan_file(joinpath(current_working_directory, relative_path),
                                     path_stack, TRUE,
                                     close(current, is_included, sections))
              IN IF inner.err # NoError THEN inner
                 ELSE scan_lines(Tail(lines), path, path_stack, is_included,
                                 [current EXCEPT !.data = <<>>], inner.sections)
         ELSE scan_lines(Tail(lines), path, path_stack, is_included,
                         [current EXCEPT !.data = @ \o line], sections)

scan_lines(lines, path, path_stack, is_included, current, sections) ==
    IF lines = <<>>
    THEN [sections |-> close(current, is_included, sections), err |-> NoError]
    ELSE
      LET line == Head(lines)
          code_start == CODE_BLOCK_START_PATTERN(line)
          include == INCLUDE_STATEMENT_PATTERN(line)
      IN IF code_start.matched
         THEN LET closed == close(current, is_included, sections)
                  new_code_section_name == strip(code_start.group1)
              IN IF new_code_section_name = <<>>
                 THEN [sections |-> closed, err |-> "BadSectionNameError"]
                 ELSE IF BAD_SECTION_NAME_PATTERN(new_code_section_name)
                 THEN [sections |-> closed, err |-> "BadSectionNameError"]
                 ELSE scan_lines(Tail(lines), path, path_stack, is_included,
                                 CodeSectionInProgress(new_code_section_name), closed)
         ELSE IF DOCUMENTATION_BLOCK_START_PATTERN(line)
         THEN scan_lines(Tail(lines), path, path_stack, is_included,
                         DocumentationSectionInProgress,
                         close(current, is_included, sections))
         ELSE IF include.matched
         THEN LET relative_path == include.group1
                  current_working_directory == parent_of(path)
                  inner == scan_file(joinpath(current_working_directory, relative_path),
                                     path_stack, TRUE,
                                     close(current, is_included, sections))
              IN IF inner.err # NoError THEN inner
                 ELSE scan_lines(Tail(lines), path, path_stack, is_included,
                                 DocumentationSectionInProgress, inner.sections)
         ELSE scan_lines(Tail(lines), path, path_stack, is_included,
                         [current EXCEPT !.data = @ \o line], sections)

scan_file(path, path_stack, is_included, sections) ==
    IF \E i \in 1..Len(path_stack) : path_stack[i] = path
    THEN [sections |-> sections, err |-> "FileIncludeRecursionError"]
    ELSE IF Len(path) > MaxPathLen
    THEN [sections |-> sections, err |-> "OSError"]
    ELSE IF realpath(path) \notin DOMAIN files
    THEN [sections |-> sections, err |-> "FileNotFoundError"]
    ELSE scan_lines(file_lines(universal_newlines(files[realpath(path)])), path,
                    Append(path_stack, path), is_included,
                    DocumentationSectionInProgress, sections)

----------------------------------------------------------------------------
(* Stage 2: assign_sequence_numbers_to_code_sections *)

\* db_gateway.code_section_ids_in_order: the code sections with is_included = 0
code_section_ids_in_order(sections) ==
    SelectSeq([i \in 1..Len(sections) |-> i],
              LAMBDA i : sections[i].kind = "code" /\ ~sections[i].is_included)

\* the loop of assign_sequence_numbers_to_code_sections
assign_code_section_presentation_numbers(sections) ==
    LET ids == code_section_ids_in_order(sections)
    IN [i \in 1..Len(sections) |->
          IF \E k \in 1..Len(ids) : ids[k] = i
          THEN [sections[i] EXCEPT !.presentation_number =
                                      CHOOSE k \in 1..Len(ids) : ids[k] = i]
          ELSE sections[i]]

----------------------------------------------------------------------------
(* Stage 3: split_sections_into_fragment_streams *)

\* split_data without the test for the escape character: every match is a
\* reference and the backslash stays in the plain text
RECURSIVE split_data_never_escaped(_, _, _, _)
split_data_never_escaped(data, section_id, plain_text_start, fragments) ==
    LET match == CODE_BLOCK_REFERENCE_PATTERN(data, plain_text_start)
    IN IF ~match.matched
       THEN [fragments |-> IF plain_text_start <= Len(data)
                           THEN write_fragment(fragments, "plain text", section_id,
                                               DropTo(data, plain_text_start), <<>>)
                           ELSE fragments,
             err |-> NoError]
       ELSE LET reference_name == strip(match.name)
                plain_text == SubSeq(data, plain_text_start, match.start - 1)
                with_text == IF plain_text # <<>>
                             THEN write_fragment(fragments, "plain text", section_id,
                                                 plain_text, <<>>)
                             ELSE fragments
            IN IF BAD_SECTION_NAME_PATTERN(reference_name)
               THEN [fragments |-> fragments, err |-> "BadSectionNameError"]
               ELSE split_data_never_escaped(data, section_id, match.end,
                        write_fragment(with_text, "reference", section_id,
                                       reference_name, match.indent))

\* the finditer loop over one section's data, and the trailing plain text
RECURSIVE split_data(_, _, _, _)
split_data(data, section_id, plain_text_start, fragments) ==
    LET match == CODE_BLOCK_REFERENCE_PATTERN(data, plain_text_start)
    IN IF ~match.matched
       THEN [fragments |-> IF plain_text_start <= Len(data)
                           THEN write_fragment(fragments, "plain text", section_id,
                                               DropTo(data, plain_text_start), <<>>)
                           ELSE fragments,
             err |-> NoError]
       ELSE LET reference_name == strip(match.name)
                before == SubSeq(data, plain_text_start, match.start - 1)
                reference_is_escaped == endswith(before, <<BS>>)
                plain_text == IF reference_is_escaped
                              THEN SubSeq(before, 1, Len(before) - 1) ELSE before
                with_text == IF plain_text # <<>>
                             THEN write_fragment(fragments, "plain text", section_id,
                                                 plain_text, <<>>)
                             ELSE fragments
            IN IF BAD_SECTION_NAME_PATTERN(reference_name)
               THEN [fragments |-> fragments, err |-> "BadSectionNameError"]
               ELSE split_data(data, section_id, match.end,
                      IF reference_is_escaped
                      THEN write_fragment(with_text, "escaped reference", section_id,
                                          reference_name, <<>>)
                      ELSE write_fragment(with_text, "reference", section_id,
                                          reference_name, match.indent))

\* the loop over database.read_document_sections (ORDER BY id)
RECURSIVE split_sections(_, _, _)
split_sections(sections, section_id, fragments) ==
    IF section_id > Len(sections) THEN [fragments |-> fragments, err |-> NoError]
    ELSE LET r == split_data(sections[section_id].data, section_id, 1, fragments)
         IN IF r.err # NoError THEN r
            ELSE split_sections(sections, section_id + 1, r.fragments)

----------------------------------------------------------------------------
(* Stage 4: collect_full_section_names *)

\* name LIKE '%...'
is_abbreviated(name) == endswith(name, ELLIPSIS)

\* the search that takes the targets of escaped references too
search_for_unabbreviated_names_and_escaped(sections, fragments) ==
    {sections[i].name : i \in {j \in 1..Len(sections) :
          sections[j].kind = "code" /\ ~is_abbreviated(sections[j].name)}}
    \cup
    {fragments[i].data : i \in {j \in 1..Len(fragments) :
          /\ fragments[j].kind \in {"reference", "escaped reference"}
          /\ ~is_abbreviated(fragments[j].data)}}

\* database.search_for_unabbreviated_names
search_for_unabbreviated_names(sections, fragments) ==
    {sections[i].name : i \in {j \in 1..Len(sections) :
          sections[j].kind = "code" /\ ~is_abbreviated(sections[j].name)}}
    \cup
    {fragments[i].data : i \in {j \in 1..Len(fragments) :
          fragments[j].kind = "reference" /\ ~is_abbreviated(fragments[j].data)}}

----------------------------------------------------------------------------
(* Stage 5: resolve_all_abbreviations *)

UpperCase == <<"A", "B", "C", "D", "E", "F", "G", "H", "I", "J", "K", "L", "M",
               "N", "O", "P", "Q", "R", "S", "T", "U", "V", "W", "X", "Y", "Z">>
LowerCase == <<"a", "b", "c", "d", "e", "f", "g", "h", "i", "j", "k", "l", "m",
               "n", "o", "p", "q", "r", "s", "t", "u", "v", "w", "x", "y", "z">>

lower(c) ==
    IF \E i \in 1..26 : UpperCase[i] = c
    THEN LowerCase[CHOOSE i \in 1..26 : UpperCase[i] = c]
    ELSE c

\* SQLite's LIKE: % matches any run, _ any character, ASCII letters match
\* without regard to case
RECURSIVE like(_, _)
like(s, pattern) ==
    IF pattern = <<>> THEN s = <<>>
    ELSE IF Head(pattern) = "%"
    THEN \E k \in 1..(Len(s) + 1) : like(DropTo(s, k), Tail(pattern))
    ELSE /\ s # <<>>
         /\ \/ Head(pattern) = "_"
            \/ lower(Head(pattern)) = lower(Head(s))
         /\ like(Tail(s), Tail(pattern))

\* database.resolve_abbreviation: name LIKE ?||'%'
resolve_abbreviation(names, abbreviation) ==
    {n \in names : like(n, abbreviation \o <<"%">>)}

\* fix_abbreviations over the abbreviated code-section names: the sections
\* from id on, in id order
RECURSIVE fix_code_section_names(_, _, _)
fix_code_section_names(sections, id, names) ==
    IF id > Len(sections) THEN [sections |-> sections, err |-> NoError]
    ELSE IF sections[id].kind = "code" /\ is_abbreviated(sections[id].name)
    THEN LET name == sections[id].name
             abbreviated_name == SubSeq(name, 1, Len(name) - 3)
             full_names == resolve_abbreviation(names, abbreviated_name)
         IN IF Cardinality(full_names) # 1
            THEN [sections |-> sections, err |-> "NonUniqueAbbreviationError"]
            ELSE fix_code_section_names(
                     [sections EXCEPT ![id].name = CHOOSE n \in full_names : TRUE],
                     id + 1, names)
    ELSE fix_code_section_names(sections, id + 1, names)

\* fix_abbreviations that looks the abbreviated reference names up and
\* leaves them as they are
RECURSIVE fix_reference_fragment_names_kept(_, _, _)
fix_reference_fragment_names_kept(fragments, id, names) ==
    IF id > Len(fragments) THEN [fragments |-> fragments, err |-> NoError]
    ELSE IF fragments[id].kind = "reference" /\ is_abbreviated(fragments[id].data)
    THEN LET name == fragments[id].data
             abbreviated_name == SubSeq(name, 1, Len(name) - 3)
             full_names == resolve_abbreviation(names, abbreviated_name)
         IN IF Cardinality(full_names) # 1
            THEN [fragments |-> fragments, err |-> "NonUniqueAbbreviationError"]
            ELSE fix_reference_fragment_names_kept(fragments, id + 1, names)
    ELSE fix_reference_fragment_names_kept(fragments, id + 1, names)

\* fix_abbreviations that takes the escaped references along with the
\* references
RECURSIVE fix_reference_fragment_names_escaped_too(_, _, _)
fix_reference_fragment_names_escaped_too(fragments, id, names) ==
    IF id > Len(fragments) THEN [fragments |-> fragments, err |-> NoError]
    ELSE IF fragments[id].kind \in {"reference", "escaped reference"}
            /\ is_abbreviated(fragments[id].data)
    THEN LET name == fragments[id].data
             abbreviated_name == SubSeq(name, 1, Len(name) - 3)
             full_names == resolve_abbreviation(names, abbreviated_name)
         IN IF Cardinality(full_names) # 1
            THEN [fragments |-> fragments, err |-> "NonUniqueAbbreviationError"]
            ELSE fix_reference_fragment_names_escaped_too(
                     [fragments EXCEPT ![id].data = CHOOSE n \in full_names : TRUE],
                     id + 1, names)
    ELSE fix_reference_fragment_names_escaped_too(fragments, id + 1, names)

\* fix_abbreviations over the abbreviated reference-fragment names
RECURSIVE fix_reference_fragment_names(_, _, _)
fix_reference_fragment_names(fragments, id, names) ==
    IF id > Len(fragments) THEN [fragments |-> fragments, err |-> NoError]
    ELSE IF fragments[id].kind = "reference" /\ is_abbreviated(fragments[id].data)
    THEN LET name == fragments[id].data
             abbreviated_name == SubSeq(name, 1, Len(name) - 3)
             full_names == resolve_abbreviation(names, abbreviated_name)
         IN IF Cardinality(full_names) # 1
            THEN [fragments |-> fragments, err |-> "NonUniqueAbbreviationError"]
            ELSE fix_reference_fragment_names(
                     [fragments EXCEPT ![id].data = CHOOSE n \in full_names : TRUE],
                     id + 1, names)
    ELSE fix_reference_fragment_names(fragments, id + 1, names)

----------------------------------------------------------------------------
(* Stage 6: group_fragment_streams_by_section_name *)

\* database.assign_fragment_name_ids for every full name: a fragment whose
\* parent section carries a full name is filed under that name
assign_fragment_name_ids(fragments, sections, names) ==
    [i \in 1..Len(fragments) |->
        LET parent == sections[fragments[i].parent_id]
        IN IF parent.kind = "code" /\ parent.name \in names
           THEN [fragments[i] EXCEPT !.parent_name = parent.name]
           ELSE fragments[i]]

----------------------------------------------------------------------------
(* Stage 7: resolve_named_code_sections_into_plain_text *)

\* name_has_a_definition that finds every name defined
name_has_a_definition_always(name) == TRUE

\* db_gateway.is_name_defined_by_code_section
name_has_a_definition(name) ==
    \E i \in 1..Len(document_section) :
        document_section[i].kind = "code" /\ document_section[i].name = name

\* db_gateway.fragments_belonging_to_this_name_in_order: ORDER BY parent, fragment
RECURSIVE fragments_of_parents_from(_, _)
fragments_of_parents_from(name, parent_id) ==
    IF parent_id > Len(document_section) THEN <<>>
    ELSE SelectSeq(fragment, LAMBDA f : f.parent_name = name /\ f.parent_id = parent_id)
         \o fragments_of_parents_from(name, parent_id + 1)

fragments_belonging_to_this_name(name) == fragments_of_parents_from(name, 1)

\* write_non_root_name that writes nothing
write_non_root_name_dropped(names, name) == names

\* database.write_non_root_name: INSERT OR IGNORE ... WHERE name = ?
write_non_root_name(names, name) ==
    IF name \in code_section_name THEN names \cup {name} ELSE names

\* the loop over the lines without "needs_indent = True": only a line that
\* follows text of the caller is indented
RECURSIVE append_lines_first_only(_, _, _, _)
append_lines_first_only(hunk_in_progress, lines, indent, needs_indent) ==
    IF lines = <<>> THEN hunk_in_progress
    ELSE append_lines_first_only(
            (IF needs_indent THEN hunk_in_progress \o indent ELSE hunk_in_progress)
                \o Head(lines),
            Tail(lines), indent, FALSE)

\* the loop over fragment_data.splitlines(keepends=True)
RECURSIVE append_lines(_, _, _, _)
append_lines(hunk_in_progress, lines, indent, needs_indent) ==
    IF lines = <<>> THEN hunk_in_progress
    ELSE append_lines(
            (IF needs_indent THEN hunk_in_progress \o indent ELSE hunk_in_progress)
                \o Head(lines),
            Tail(lines), indent, TRUE)

\* coalesce_fragments: [err, hunk, non_root, name_stack, opened], non_root
\* being the table after the calls to write_non_root_name, name_stack the list
\* of open names as the call leaves it, and opened the values that the list
\* took, one for each name_stack.append, in the order of the calls
RECURSIVE coalesce_fragments(_, _, _, _, _, _)
RECURSIVE coalesce_loop(_, _, _, _, _, _, _)

\* the loop that hands a reference its own indent alone, without the indent
\* of the references around it
coalesce_loop_indent_replaced(rows, name_stack, hunk_in_progress, indent, document_section_separator, current_parent_document_section_id, names) ==
    IF rows = <<>>
    THEN [err |-> NoError, hunk |-> hunk_in_progress, non_root |-> names,
          name_stack |-> name_stack, opened |-> <<>>]
    ELSE
      LET row == Head(rows)
          new_section == row.parent_id # current_parent_document_section_id
          hunk == IF new_section THEN hunk_in_progress \o document_section_separator
                  ELSE hunk_in_progress
          separator == IF new_section THEN <<NL>> ELSE document_section_separator
      IN IF row.kind = "plain text"
         THEN coalesce_loop(Tail(rows), name_stack,
                  append_lines(hunk, splitlines(row.data), indent, endswith(hunk, <<NL>>)),
                  indent, separator, row.parent_id, names)
         ELSE IF row.kind = "reference"
         THEN LET inner == coalesce_fragments(row.data, name_stack, FALSE, hunk,
                                              row.indent, names)
              IN IF inner.err # NoError THEN inner
                 ELSE LET rest == coalesce_loop(Tail(rows), inner.name_stack, inner.hunk,
                                                indent, separator, row.parent_id,
                                                inner.non_root)
                      IN [rest EXCEPT !.opened = inner.opened \o @]
         ELSE coalesce_loop(Tail(rows), name_stack, hunk \o OPEN \o row.data \o CLOSE,
                            indent, separator, row.parent_id, names)

coalesce_loop(rows, name_stack, hunk_in_progress, indent, document_section_separator, current_parent_document_section_id, names) ==
    IF rows = <<>>
    THEN [err |-> NoError, hunk |-> hunk_in_progress, non_root |-> names,
          name_stack |-> name_stack, opened |-> <<>>]
    ELSE
      LET row == Head(rows)
          new_section == row.parent_id # current_parent_document_section_id
          hunk == IF new_section THEN hunk_in_progress \o document_section_separator
                  ELSE hunk_in_progress
          separator == IF new_section THEN <<NL>> ELSE document_section_separator
      IN IF row.kind = "plain text"
         THEN coalesce_loop(Tail(rows), name_stack,
                  append_lines(hunk, splitlines(row.data), indent, endswith(hunk, <<NL>>)),
                  indent, separator, row.parent_id, names)
         ELSE IF row.kind = "reference"
         THEN LET inner == coalesce_fragments(row.data, name_stack, FALSE, hunk,
                                              indent \o row.indent, names)
              IN IF inner.err # NoError THEN inner
                 ELSE LET rest == coalesce_loop(Tail(rows), inner.name_stack, inner.hunk,
                                                indent, separator, row.parent_id,
                                                inner.non_root)
                      IN [rest EXCEPT !.opened = inner.opened \o @]
         ELSE coalesce_loop(Tail(rows), name_stack, hunk \o OPEN \o row.data \o CLOSE,
                            indent, separator, row.parent_id, names)

\* coalesce_fragments that returns at a name already open instead of raising
coalesce_fragments_open_name_skipped(name, name_stack, is_top_level, hunk_in_progress, indent, names) ==
    LET marked == IF is_top_level THEN names ELSE write_non_root_name(names, name)
    IN IF \E i \in 1..Len(name_stack) : name_stack[i] = name
       THEN [err |-> NoError, hunk |-> hunk_in_progress, non_root |-> marked,
             name_stack |-> name_stack, opened |-> <<>>]
       ELSE IF ~name_has_a_definition(name)
       THEN [err |-> "NoSuchCodeSectionError", hunk |-> hunk_in_progress,
             non_root |-> marked, name_stack |-> name_stack, opened |-> <<>>]
       ELSE LET r == coalesce_loop(fragments_belonging_to_this_name(name),
                                   Append(name_stack, name), hunk_in_progress, indent,
                                   <<>>, 0, marked)
            IN IF r.err # NoError
               THEN [r EXCEPT !.opened = <<Append(name_stack, name)>> \o @]
               ELSE [r EXCEPT !.opened = <<Append(name_stack, name)>> \o @,
                              !.name_stack = SubSeq(@, 1, Len(@) - 1)]

\* coalesce_fragments that leaves its name on the list when it returns
coalesce_fragments_never_popped(name, name_stack, is_top_level, hunk_in_progress, indent, names) ==
    LET marked == IF is_top_level THEN names ELSE write_non_root_name(names, name)
    IN IF \E i \in 1..Len(name_stack) : name_stack[i] = name
       THEN [err |-> "CodeSectionRecursionError", hunk |-> hunk_in_progress,
             non_root |-> marked, name_stack |-> name_stack, opened |-> <<>>]
       ELSE IF ~name_has_a_definition(name)
       THEN [err |-> "NoSuchCodeSectionError", hunk |-> hunk_in_progress,
             non_root |-> marked, name_stack |-> name_stack, opened |-> <<>>]
       ELSE LET r == coalesce_loop(fragments_belonging_to_this_name(name),
                                   Append(name_stack, name), hunk_in_progress, indent,
                                   <<>>, 0, marked)
            IN [r EXCEPT !.opened = <<Append(name_stack, name)>> \o @]

\* coalesce_fragments that looks for the name among the open names below the
\* last one
coalesce_fragments_parent_unchecked(name, name_stack, is_top_level, hunk_in_progress, indent, names) ==
    LET marked == IF is_top_level THEN names ELSE write_non_root_name(names, name)
    IN IF \E i \in 1..(Len(name_stack) - 1) : name_stack[i] = name
       THEN [err |-> "CodeSectionRecursionError", hunk |-> hunk_in_progress,
             non_root |-> marked, name_stack |-> name_stack, opened |-> <<>>]
       ELSE IF ~name_has_a_definition(name)
       THEN [err |-> "NoSuchCodeSectionError", hunk |-> hunk_in_progress,
             non_root |-> marked, name_stack |-> name_stack, opened |-> <<>>]
       ELSE LET r == coalesce_loop(fragments_belonging_to_this_name(name),
                                   Append(name_stack, name), hunk_in_progress, indent,
                                   <<>>, 0, marked)
            IN IF r.err # NoError
               THEN [r EXCEPT !.opened = <<Append(name_stack, name)>> \o @]
               ELSE [r EXCEPT !.opened = <<Append(name_stack, name)>> \o @,
                              !.name_stack = SubSeq(@, 1, Len(@) - 1)]

coalesce_fragments(name, name_stack, is_top_level, hunk_in_progress, indent, names) ==
    LET marked == IF is_top_level THEN names ELSE write_non_root_name(names, name)
    IN IF \E i \in 1..Len(name_stack) : name_stack[i] = name
       THEN [err |-> "CodeSectionRecursionError", hunk |-> hunk_in_progress,
             non_root |-> marked, name_stack |-> name_stack, opened |-> <<>>]
       ELSE IF ~name_has_a_definition(name)
       THEN [err |-> "NoSuchCodeSectionError", hunk |-> hunk_in_progress,
             non_root |-> marked, name_stack |-> name_stack, opened |-> <<>>]
       ELSE LET r == coalesce_loop(fragments_belonging_to_this_name(name),
                                   Append(name_stack, name), hunk_in_progress, indent,
                                   <<>>, 0, marked)
            IN IF r.err # NoError
               THEN [r EXCEPT !.opened = <<Append(name_stack, name)>> \o @]
               ELSE [r EXCEPT !.opened = <<Append(name_stack, name)>> \o @,
                              !.name_stack = SubSeq(@, 1, Len(@) - 1)]

\* the ending made by adding a newline only where there is none
end_with_one_newline_unstripped(hunk) ==
    IF endswith(hunk, <<NL>>) THEN hunk ELSE hunk \o <<NL>>

\* "An output file should end with exactly one newline."
end_with_one_newline(hunk) == rstrip(hunk, {CR, NL}) \o <<NL>>

\* database.write_resolved_code_section: INSERT OR IGNORE
write_resolved_code_section(resolved, name, code) ==
    IF name \in DOMAIN resolved THEN resolved
    ELSE [n \in DOMAIN resolved \cup {name} |-> IF n = name THEN code ELSE resolved[n]]

\* the names that no code section refers to
root_names_unreferenced ==
    (code_section_name \ non_root)
        \ {fragment[i].data : i \in {j \in 1..Len(fragment) :
                                        fragment[j].kind = "reference"}}

\* db_gateway.unabbreviated_names(roots_only=True): names EXCEPT non-root names
root_names == code_section_name \ non_root

\* the orders in which a set of names can come out of the store
Orders(names) ==
    {order \in [1..Cardinality(names) -> names] :
        \A i, j \in 1..Cardinality(names) : order[i] = order[j] => i = j}

\* the loop that ends after the first name
resolve_in_order_first_only(order, names, resolved) ==
    IF order = <<>> THEN [err |-> NoError, non_root |-> names, resolved |-> resolved]
    ELSE LET r == coalesce_fragments(Head(order), <<>>, TRUE, <<>>, <<>>, names)
         IN IF r.err # NoError
            THEN [err |-> r.err, non_root |-> r.non_root, resolved |-> resolved]
            ELSE [err |-> NoError, non_root |-> r.non_root,
                  resolved |-> write_resolved_code_section(resolved, Head(order),
                                                           end_with_one_newline(r.hunk))]

\* the loop of resolve_named_code_sections_into_plain_text over the names
\* that the query returned
RECURSIVE resolve_in_order(_, _, _)
resolve_in_order(order, names, resolved) ==
    IF order = <<>> THEN [err |-> NoError, non_root |-> names, resolved |-> resolved]
    ELSE LET r == coalesce_fragments(Head(order), <<>>, TRUE, <<>>, <<>>, names)
         IN IF r.err # NoError
            THEN [err |-> r.err, non_root |-> r.non_root, resolved |-> resolved]
            ELSE resolve_in_order(Tail(order), r.non_root,
                     write_resolved_code_section(resolved, Head(order),
                                                 end_with_one_newline(r.hunk)))

----------------------------------------------------------------------------
(* The input: the files a tangle can be run on *)

MaxBlocks == 2       \* blocks (a start line and the lines after it) per file
MaxFailedRuns == 1   \* stage runs that may fail before the store is given up

ROOT == <<"r">>      \* the path handed to parse_source_file
INCLUDED == <<"i">>  \* a second file in the same directory

N_ab == <<"a", "b">>
N_ac == <<"a", "c">>
N_AB == <<"A", "B">>
N_nb == <<"n", "b">>
N_a == <<"a">> \o ELLIPSIS        \* the abbreviation a...
N__b == <<"_", "b">> \o ELLIPSIS  \* the abbreviation _b...

Ref(name) == OPEN \o name \o CLOSE
StartLine(name) == Ref(name) \o <<"=", NL>>
Line(text) == text \o <<NL>>
IncludeLine(path) == INCLUDE_OPEN \o path \o <<")", NL>>

\* what can follow the start line of a code section
CodeBodies ==
    { <<>>,
      Line(<<"x">>),
      Line(<<"x">>) \o Line(<<"y">>),
      Line(<<SP, SP>> \o Ref(N_ac)),
      Line(Ref(N_ab)),
      Line(<<BS>> \o Ref(N_ac)),
      Line(Ref(N_a)),
      Line(<<"x">>) \o <<NL, NL>>,
      <<NL, NL>>,
      <<"y", CR, NL, CR, NL>> }

Blocks ==
    {StartLine(name) \o body : name \in {N_ab, N_ac}, body \in CodeBodies}
    \cup {StartLine(N_a) \o body : body \in {<<>>, Line(<<"x">>)}}
    \cup {StartLine(name) \o Line(<<"x">>) : name \in {N_AB, N_nb}}
    \cup {Line(<<"@">>) \o body : body \in {<<>>, Line(<<"x">>), Line(Ref(N_ac))}}
    \cup {IncludeLine(INCLUDED)}

RECURSIVE Concat(_)
Concat(texts) == IF texts = <<>> THEN <<>> ELSE Head(texts) \o Concat(Tail(texts))

\* the lines x and y of ab, ended by a lone @, by a start line and by an
\* include line, each followed by the line d
BoundaryCases ==
    { StartLine(N_ab) \o Line(<<"x">>) \o Line(<<"y">>) \o after \o Line(<<"d">>) :
        after \in {Line(<<"@">>), StartLine(N_ac), IncludeLine(INCLUDED)} }

\* a name referred to twice in one section, and a name referred to from two
\* branches of a graph without a cycle
RepeatCases ==
    { StartLine(N_ab) \o Line(Ref(N_ac)) \o Line(Ref(N_ac)) \o StartLine(N_ac) \o Line(<<"x">>),
      StartLine(N_ab) \o Line(Ref(N_ac)) \o Line(Ref(N_nb)) \o StartLine(N_ac)
          \o Line(Ref(N_nb)) \o StartLine(N_nb) \o Line(<<"x">>) }

\* root files written out in full: an include of the root file by another
\* path, names that are empty or hold a delimiter, an abbreviation with a
\* character that LIKE reads as a wildcard, and a name that only an escaped
\* reference mentions, a name abbreviated where it is defined and where it
\* is referred to, an abbreviation in an escaped reference, and a file
\* whose last line has no newline
Cases ==
    { StartLine(N_ab) \o Line(<<"x">>) \o IncludeLine(UP \o ROOT),
      StartLine(<<SP>>) \o Line(<<"x">>),
      StartLine(N_ab \o OPEN \o N_ac),
      StartLine(N_ab \o CLOSE \o N_ac),
      StartLine(N_ab) \o Line(Ref(<<>>)),
      Line(<<"@">>) \o Line(Ref(<<SP>>)) \o StartLine(N_ab) \o Line(<<"x">>),
      StartLine(N_ab) \o Line(OPEN \o N_ab \o Ref(N_ac)),
      StartLine(N_nb) \o Line(<<"x">>) \o StartLine(N__b) \o Line(<<"y">>),
      StartLine(N_nb) \o Line(<<BS>> \o Ref(N_ac)) \o StartLine(N_a) \o Line(<<"x">>),
      StartLine(N_nb) \o Line(<<SP, SP>> \o Ref(N_a)) \o StartLine(N_ac) \o Line(<<"x">>)
          \o StartLine(N_a) \o Line(<<"y">>),
      StartLine(N_ab) \o Line(<<BS>> \o Ref(N_a)) \o StartLine(N_a) \o Line(<<"x">>),
      StartLine(N_ab) \o Line(<<"x">>) \o <<"y">> }
    \cup BoundaryCases
    \cup RepeatCases

Texts ==
    {Concat(blocks) : blocks \in UNION {[1..n -> Blocks] : n \in 0..MaxBlocks}} \cup Cases

\* what the included file can hold
IncludedTexts ==
    { StartLine(N_ac) \o Line(<<"y">>),
      Line(<<"x">>),
      IncludeLine(ROOT),
      StartLine(N_ab) \o Line(<<"z">>) \o IncludeLine(INCLUDED),
      IncludeLine(UP \o INCLUDED),
      StartLine(N_ac) \o Line(Ref(N_nb)) \o Line(<<TAB>> \o Ref(N_nb))
          \o StartLine(N_nb) \o Line(<<"y">>) \o Line(<<"z">>) }

FileSystems ==
    {[path \in {ROOT, INCLUDED} |-> IF path = ROOT THEN text ELSE included] :
        text \in {t \in Texts : contains(t, IncludeLine(INCLUDED))},
        included \in IncludedTexts}
    \cup
    {[path \in {ROOT} |-> text] : text \in {t \in Texts : ~contains(t, IncludeLine(INCLUDED))}}

----------------------------------------------------------------------------
(* The state machine *)

Init ==
    /\ files \in FileSystems
    /\ parser_state = 1
    /\ document_section = <<>>
    /\ fragment = <<>>
    /\ code_section_name = {}
    /\ non_root = {}
    /\ resolved_code = EmptyMap
    /\ last_error = NoError
    /\ failed_runs = 0
    /\ code_files = [returned |-> FALSE, map |-> EmptyMap]

\* assert_parser_state fails: nothing but the exception happens
OutOfSequence ==
    /\ last_error' = "ParsingTasksCalledOutOfSequence"
    /\ UNCHANGED <<files, parser_state, document_section, fragment, code_section_name,
                   non_root, resolved_code, failed_runs, code_files>>

\* the ending of a stage that sets the marker before it does its work
Finish_marker_set_first(err, next_state) ==
    /\ last_error' = err
    /\ parser_state' = next_state
    /\ failed_runs' = IF err = NoError THEN failed_runs ELSE failed_runs + 1

\* how a stage that ran ends: the marker advances unless it raised
Finish(err, next_state) ==
    /\ last_error' = err
    /\ parser_state' = IF err = NoError THEN next_state ELSE parser_state
    /\ failed_runs' = IF err = NoError THEN failed_runs ELSE failed_runs + 1

split_source_document_into_sections ==
    /\ failed_runs <= MaxFailedRuns
    /\ IF parser_state # 1 THEN OutOfSequence
       ELSE LET r == scan_file(ROOT, <<>>, FALSE, document_section)
            IN /\ document_section' = r.sections
               /\ Finish(r.err, 2)
               /\ UNCHANGED <<files, fragment, code_section_name, non_root,
                              resolved_code, code_files>>

assign_sequence_numbers_to_code_sections ==
    /\ failed_runs <= MaxFailedRuns
    /\ IF parser_state # 2 THEN OutOfSequence
       ELSE /\ document_section' = assign_code_section_presentation_numbers(document_section)
            /\ Finish(NoError, 3)
            /\ UNCHANGED <<files, fragment, code_section_name, non_root,
                           resolved_code, code_files>>

split_sections_into_fragment_streams ==
    /\ failed_runs <= MaxFailedRuns
    /\ IF parser_state # 3 THEN OutOfSequence
       ELSE LET r == split_sections(document_section, 1, fragment)
            IN /\ fragment' = r.fragments
               /\ Finish(r.err, 4)
               /\ UNCHANGED <<files, document_section, code_section_name, non_root,
                              resolved_code, code_files>>

\* the stage without its call to assert_parser_state
collect_full_section_names_unguarded ==
    /\ failed_runs <= MaxFailedRuns
    /\ code_section_name' = code_section_name
            \cup search_for_unabbreviated_names(document_section, fragment)
    /\ Finish(NoError, 5)
    /\ UNCHANGED <<files, document_section, fragment, non_root,
                   resolved_code, code_files>>

collect_full_section_names ==
    /\ failed_runs <= MaxFailedRuns
    /\ IF parser_state # 4 THEN OutOfSequence
       ELSE /\ code_section_name' = code_section_name
                    \cup search_for_unabbreviated_names(document_section, fragment)
            /\ Finish(NoError, 5)
            /\ UNCHANGED <<files, document_section, fragment, non_root,
                           resolved_code, code_files>>

resolve_all_abbreviations ==
    /\ failed_runs <= MaxFailedRuns
    /\ IF parser_state # 5 THEN OutOfSequence
       ELSE LET s == fix_code_section_names(document_section, 1, code_section_name)
                f == IF s.err # NoError THEN [fragments |-> fragment, err |-> s.err]
                     ELSE fix_reference_fragment_names(fragment, 1, code_section_name)
            IN /\ document_section' = s.sections
               /\ fragment' = f.fragments
               /\ Finish(f.err, 6)
               /\ UNCHANGED <<files, code_section_name, non_root, resolved_code, code_files>>

group_fragment_streams_by_section_name ==
    /\ failed_runs <= MaxFailedRuns
    /\ IF parser_state # 6 THEN OutOfSequence
       ELSE /\ fragment' = assign_fragment_name_ids(fragment, document_section,
                                                    code_section_name)
            /\ Finish(NoError, 7)
            /\ UNCHANGED <<files, document_section, code_section_name, non_root,
                           resolved_code, code_files>>

resolve_named_code_sections_into_plain_text ==
    /\ failed_runs <= MaxFailedRuns
    /\ IF parser_state # 7 THEN OutOfSequence
       ELSE \E order \in Orders(root_names) :
              LET r == resolve_in_order(order, non_root, resolved_code)
              IN /\ non_root' = r.non_root
                 /\ resolved_code' = r.resolved
                 /\ Finish(r.err, 8)
                 /\ UNCHANGED <<files, document_section, fragment, code_section_name,
                                code_files>>

get_code_files ==
    /\ failed_runs <= MaxFailedRuns
    /\ IF parser_state # 8 THEN OutOfSequence
       ELSE /\ code_files' = [returned |-> TRUE, map |-> resolved_code]
            /\ last_error' = NoError
            /\ UNCHANGED <<files, parser_state, document_section, fragment,
                           code_section_name, non_root, resolved_code, failed_runs>>

Next ==
    \/ split_source_document_into_sections
    \/ assign_sequence_numbers_to_code_sections
    \/ split_sections_into_fragment_streams
    \/ collect_full_section_names
    \/ resolve_all_abbreviations
    \/ group_fragment_streams_by_section_name
    \/ resolve_named_code_sections_into_plain_text
    \/ get_code_files

Spec == Init /\ [][Next]_vars

----------------------------------------------------------------------------
(* The in-memory reader: src/calypso/bootstrap/code_reader.py               *)
(* (its patterns are those of src/blue/base/patterns.py)                    *)

NoSection == [open |-> FALSE, name |-> NoName, code |-> <<>>]

\* close_code_section: [code_section, code_sections]
reader_close_code_section(code_section, code_sections) ==
    IF ~code_section.open THEN code_sections
    ELSE LET code == IF endswith(code_section.code, <<NL>>)
                     THEN SubSeq(code_section.code, 1, Len(code_section.code) - 1)
                     ELSE code_section.code
             name == code_section.name
         IN [n \in DOMAIN code_sections \cup {name} |->
                IF n # name THEN code_sections[n]
                ELSE IF name \in DOMAIN code_sections
                     THEN code_sections[name] \o <<NL>> \o code
                     ELSE code]

\* coalesce_code_sections.scan_file: [code_section, code_sections, err]
RECURSIVE reader_scan_file(_, _, _, _)
RECURSIVE reader_scan_lines(_, _, _, _, _)

reader_scan_lines(lines, source_file, path_stack, code_section, code_sections) ==
    IF lines = <<>>
    THEN [code_section |-> NoSection,
          code_sections |-> reader_close_code_section(code_section, code_sections),
          err |-> NoError]
    ELSE
      LET line == Head(lines)
          code_start == CODE_BLOCK_START_PATTERN(line)
          include == INCLUDE_STATEMENT_PATTERN(line)
          closed == reader_close_code_section(code_section, code_sections)
      IN IF code_start.matched
         THEN LET new_code_section_name == strip(code_start.group1)
              IN IF new_code_section_name = <<>>
                    \/ BAD_SECTION_NAME_PATTERN(new_code_section_name)
                 THEN [code_section |-> NoSection, code_sections |-> closed,
                       err |-> "BadSectionNameError"]
                 ELSE reader_scan_lines(Tail(lines), source_file, path_stack,
                          [open |-> TRUE, name |-> new_code_section_name, code |-> <<>>],
                          closed)
         ELSE IF DOCUMENTATION_BLOCK_START_PATTERN(line)
         THEN reader_scan_lines(Tail(lines), source_file, path_stack, NoSection, closed)
         ELSE IF include.matched
         THEN LET relative_path == include.group1
                  current_working_directory == parent_of(source_file)
                  inner == reader_scan_file(joinpath(current_working_directory, relative_path),
                                            path_stack, NoSection, closed)
              IN IF inner.err # NoError THEN inner
                 ELSE reader_scan_lines(Tail(lines), source_file, path_stack, inner.code_section,
                                        inner.code_sections)
         ELSE IF code_section.open
         THEN reader_scan_lines(Tail(lines), source_file, path_stack,
                                [code_section EXCEPT !.code = @ \o line], code_sections)
         ELSE reader_scan_lines(Tail(lines), source_file, path_stack, code_section, code_sections)

reader_scan_file(source_file, path_stack, code_section, code_sections) ==
    IF \E i \in 1..Len(path_stack) : path_stack[i] = source_file
    THEN [code_section |-> code_section, code_sections |-> code_sections,
          err |-> "FileIncludeRecursionError"]
    ELSE IF Len(source_file) > MaxPathLen
    THEN [code_section |-> code_section, code_sections |-> code_sections,
          err |-> "OSError"]
    ELSE IF realpath(source_file) \notin DOMAIN files
    THEN [code_section |-> code_section, code_sections |-> code_sections,
          err |-> "FileNotFoundError"]
    ELSE reader_scan_lines(file_lines(universal_newlines(files[realpath(source_file)])),
                           source_file, Append(path_stack, source_file), code_section,
                           code_sections)

\* coalesce_code_sections: [code_sections, err]
coalesce_code_sections(root_source_file) ==
    reader_scan_file(root_source_file, <<>>, NoSection, EmptyMap)

\* the finditer loop over one code-section: [fragment_list, referenced, err]
RECURSIVE reader_split(_, _, _, _, _)
reader_split(code_section, from, plain_code_start, fragment_list, referenced) ==
    LET match == CODE_BLOCK_REFERENCE_PATTERN(code_section, from)
    IN IF ~match.matched
       THEN [fragment_list |-> IF plain_code_start <= Len(code_section)
                               THEN Append(fragment_list,
                                      [kind |-> "plain text",
                                       data |-> DropTo(code_section, plain_code_start),
                                       indent |-> <<>>])
                               ELSE fragment_list,
             referenced |-> referenced, err |-> NoError]
       ELSE LET name == strip(match.name)
                before == SubSeq(code_section, plain_code_start, match.start - 1)
                reference_is_escaped == endswith(before, <<BS>>)
                plain_code == IF reference_is_escaped
                              THEN SubSeq(before, 1, Len(before) - 1) ELSE before
                with_code == IF plain_code # <<>>
                             THEN Append(fragment_list, [kind |-> "plain text",
                                             data |-> plain_code, indent |-> <<>>])
                             ELSE fragment_list
            IN IF BAD_SECTION_NAME_PATTERN(name)
               THEN [fragment_list |-> fragment_list, referenced |-> referenced,
                     err |-> "BadSectionNameError"]
               ELSE IF reference_is_escaped
               THEN reader_split(code_section, match.end, match.start, with_code, referenced)
               ELSE reader_split(code_section, match.end, match.end,
                        Append(with_code, [kind |-> "reference", data |-> name,
                                           indent |-> match.indent]),
                        referenced \cup {name})

\* split_code_sections_into_fragment_lists without the test "if not roots"
split_code_sections_into_fragment_lists_unchecked(code_section_dict) ==
    LET split == [name \in DOMAIN code_section_dict |->
                     reader_split(code_section_dict[name], 1, 1, <<>>, {})]
        all_section_names == DOMAIN code_section_dict
        referenced_section_names == UNION {split[name].referenced : name \in all_section_names}
        roots == all_section_names \ referenced_section_names
    IN IF \E name \in all_section_names : split[name].err # NoError
       THEN [fragment_dict |-> EmptyMap, roots |-> {}, err |-> "BadSectionNameError"]
       ELSE [fragment_dict |-> [name \in all_section_names |-> split[name].fragment_list],
             roots |-> roots, err |-> NoError]

\* split_code_sections_into_fragment_lists: [fragment_dict, roots, err]
split_code_sections_into_fragment_lists(code_section_dict) ==
    LET split == [name \in DOMAIN code_section_dict |->
                     reader_split(code_section_dict[name], 1, 1, <<>>, {})]
        all_section_names == DOMAIN code_section_dict
        referenced_section_names == UNION {split[name].referenced : name \in all_section_names}
        roots == all_section_names \ referenced_section_names
    IN IF \E name \in all_section_names : split[name].err # NoError
       THEN [fragment_dict |-> EmptyMap, roots |-> {}, err |-> "BadSectionNameError"]
       ELSE IF roots = {}
       THEN [fragment_dict |-> EmptyMap, roots |-> {},
             err |-> "NoRootCodeSectionsFoundError"]
       ELSE [fragment_dict |-> [name \in all_section_names |-> split[name].fragment_list],
             roots |-> roots, err |-> NoError]

\* coalesce_fragments of the reader: [err, hunk]
RECURSIVE reader_coalesce_fragments(_, _, _, _, _)
RECURSIVE reader_coalesce_loop(_, _, _, _, _)

reader_coalesce_loop(fragment_list, hunk_in_progress, fragment_dict, name_stack, indent) ==
    IF fragment_list = <<>> THEN [err |-> NoError, hunk |-> hunk_in_progress]
    ELSE LET fragment_ == Head(fragment_list)
         IN IF fragment_.kind = "plain text"
            THEN reader_coalesce_loop(Tail(fragment_list),
                     append_lines(hunk_in_progress, splitlines(fragment_.data), indent,
                                  endswith(hunk_in_progress, <<NL>>)),
                     fragment_dict, name_stack, indent)
            ELSE LET inner == reader_coalesce_fragments(hunk_in_progress, fragment_.data,
                                  fragment_dict, name_stack, indent \o fragment_.indent)
                 IN IF inner.err # NoError THEN inner
                    ELSE reader_coalesce_loop(Tail(fragment_list), inner.hunk,
                                              fragment_dict, name_stack, indent)

reader_coalesce_fragments(hunk_in_progress, name, fragment_dict, name_stack, indent) ==
    IF \E i \in 1..Len(name_stack) : name_stack[i] = name
    THEN [err |-> "CodeSectionRecursionError", hunk |-> hunk_in_progress]
    ELSE IF name \notin DOMAIN fragment_dict
    THEN [err |-> "NoSuchCodeSectionError", hunk |-> hunk_in_progress]
    ELSE reader_coalesce_loop(fragment_dict[name], hunk_in_progress, fragment_dict,
                              Append(name_stack, name), indent)

\* the loop of get_code_files over the roots: [err, map]
RECURSIVE reader_output_files(_, _, _)
reader_output_files(order, fragment_lists, output_files) ==
    IF order = <<>> THEN [err |-> NoError, map |-> output_files]
    ELSE LET r == reader_coalesce_fragments(<<>>, Head(order), fragment_lists, <<>>, <<>>)
         IN IF r.err # NoError THEN [err |-> r.err, map |-> EmptyMap]
            ELSE reader_output_files(Tail(order), fragment_lists,
                     [n \in DOMAIN output_files \cup {Head(order)} |->
                         IF n = Head(order) THEN end_with_one_newline(r.hunk)
                         ELSE output_files[n]])

\* get_code_files of the reader, run once on the root file
reader_get_code_files ==
    /\ ~code_files.returned
    /\ last_error = NoError
    /\ LET code_sections == coalesce_code_sections(ROOT)
           split == IF code_sections.err # NoError
                    THEN [fragment_dict |-> EmptyMap, roots |-> {}, err |-> code_sections.err]
                    ELSE split_code_sections_into_fragment_lists(code_sections.code_sections)
       IN \E order \in Orders(split.roots) :
            LET r == IF split.err # NoError THEN [err |-> split.err, map |-> EmptyMap]
                     ELSE reader_output_files(order, split.fragment_dict, EmptyMap)
            IN /\ last_error' = r.err
               /\ code_files' = [returned |-> r.err = NoError, map |-> r.map]
    /\ UNCHANGED <<files, parser_state, document_section, fragment, code_section_name,
                   non_root, resolved_code, failed_runs>>

NextReader == reader_get_code_files

SpecReader == Init /\ [][NextReader]_vars

----------------------------------------------------------------------------
(* The first database-backed scanner: src/blue/bootstrap/scanner.py *)

\* "SELECT id FROM document_sections WHERE is_included IS NULL ORDER BY id"
bootstrap_assign_sequence_numbers(sections) ==
    LET ids == SelectSeq([i \in 1..Len(sections) |-> i],
                         LAMBDA i : ~sections[i].is_included)
    IN [i \in 1..Len(sections) |->
          IF \E k \in 1..Len(ids) : ids[k] = i
          THEN [sections[i] EXCEPT !.presentation_number =
                                      CHOOSE k \in 1..Len(ids) : ids[k] = i]
          ELSE sections[i]]

\* fix_abbreviations: the rows come from dict_factory, so "for id,
\* abbreviated_name in reader.execute(find)" binds the two column names "id"
\* and "name"; the prefix looked up is "name"[:-3], fetchone() is None when no
\* full name matches it, and "UPDATE ... WHERE id = 'id'" changes no row
bootstrap_fix_abbreviations(number_of_rows, names) ==
    IF number_of_rows = 0 THEN NoError
    ELSE IF resolve_abbreviation(names, <<"n">>) = {} THEN "TypeError"
    ELSE NoError

\* "SELECT id, name FROM document_sections WHERE kind = 2 AND name LIKE '%...'"
bootstrap_find_code_sections(sections) ==
    {i \in 1..Len(sections) : sections[i].kind = "code" /\ is_abbreviated(sections[i].name)}

\* "SELECT id, data as name FROM fragments WHERE kind = 2 AND data LIKE '%...'"
bootstrap_find_reference_fragments(fragments) ==
    {i \in 1..Len(fragments) :
        fragments[i].kind = "reference" /\ is_abbreviated(fragments[i].data)}

\* coalesce_fragments of the bootstrap scanner: [err, hunk, non_root]
RECURSIVE bootstrap_coalesce_fragments(_, _, _, _, _, _)
RECURSIVE bootstrap_coalesce_loop(_, _, _, _, _, _, _)

bootstrap_coalesce_loop(rows, name_stack, hunk_in_progress, indent, document_section_separator, current_parent_document_section_id, names) ==
    IF rows = <<>>
    THEN [err |-> NoError, hunk |-> hunk_in_progress, non_root |-> names]
    ELSE
      LET row == Head(rows)
          new_section == row.parent_id # current_parent_document_section_id
          hunk == IF new_section THEN hunk_in_progress \o document_section_separator
                  ELSE hunk_in_progress
          separator == IF new_section THEN <<NL>> ELSE document_section_separator
      IN IF row.kind = "plain text"
         THEN bootstrap_coalesce_loop(Tail(rows), name_stack,
                  append_lines(hunk, splitlines(row.data), indent, endswith(hunk, <<NL>>)),
                  indent, separator, row.parent_id, names)
         ELSE IF row.kind = "reference"
         THEN LET inner == bootstrap_coalesce_fragments(row.data, name_stack, FALSE, hunk,
                                                        indent \o row.indent, names)
              IN IF inner.err # NoError THEN inner
                 ELSE bootstrap_coalesce_loop(Tail(rows), name_stack, inner.hunk, indent,
                                              separator, row.parent_id, inner.non_root)
         ELSE bootstrap_coalesce_loop(Tail(rows), name_stack,
                                      hunk \o OPEN \o row.data \o CLOSE,
                                      indent, separator, row.parent_id, names)

bootstrap_coalesce_fragments(name, name_stack, is_top_level, hunk_in_progress, indent, names) ==
    LET marked == IF is_top_level THEN names ELSE write_non_root_name(names, name)
        rows == SelectSeq(fragment, LAMBDA f : f.parent_name = name)
        r == bootstrap_coalesce_loop(rows, Append(name_stack, name), hunk_in_progress,
                                     indent, <<>>, 0, marked)
    IN IF \E i \in 1..Len(name_stack) : name_stack[i] = name
       THEN [err |-> "CodeSectionRecursionError", hunk |-> hunk_in_progress,
             non_root |-> marked]
       ELSE IF r.err # NoError THEN r
       ELSE IF rows = <<>>
       THEN [err |-> "NoSuchCodeSectionError", hunk |-> hunk_in_progress,
             non_root |-> marked]
       ELSE r

\* the loop "for name in all_names" of the bootstrap scanner
RECURSIVE bootstrap_resolve_in_order(_, _, _)
bootstrap_resolve_in_order(order, names, resolved) ==
    IF order = <<>> THEN [err |-> NoError, non_root |-> names, resolved |-> resolved]
    ELSE LET r == bootstrap_coalesce_fragments(Head(order), <<>>, TRUE, <<>>, <<>>, names)
         IN IF r.err # NoError
            THEN [err |-> r.err, non_root |-> r.non_root, resolved |-> resolved]
            ELSE bootstrap_resolve_in_order(Tail(order), r.non_root,
                     write_resolved_code_section(resolved, Head(order),
                                                 end_with_one_newline(r.hunk)))

\* delete_non_root_resolved_code_sections
delete_non_root_resolved_code_sections(resolved, names) ==
    [n \in DOMAIN resolved \ names |-> resolved[n]]

\* a failed "assert get_parser_state(db) == ..."
BootstrapOutOfSequence ==
    /\ last_error' = "AssertionError"
    /\ UNCHANGED <<files, parser_state, document_section, fragment, code_section_name,
                   non_root, resolved_code, failed_runs, code_files>>

bootstrap_split_source_document_into_sections ==
    /\ failed_runs <= MaxFailedRuns
    /\ IF parser_state # 1 THEN BootstrapOutOfSequence
       ELSE LET r == scan_file(ROOT, <<>>, FALSE, document_section)
            IN /\ document_section' = r.sections
               /\ Finish(r.err, 2)
               /\ UNCHANGED <<files, fragment, code_section_name, non_root,
                              resolved_code, code_files>>

bootstrap_assign_sequence_numbers_to_code_sections ==
    /\ failed_runs <= MaxFailedRuns
    /\ IF parser_state # 2 THEN BootstrapOutOfSequence
       ELSE /\ document_section' = bootstrap_assign_sequence_numbers(document_section)
            /\ Finish(NoError, 3)
            /\ UNCHANGED <<files, fragment, code_section_name, non_root,
                           resolved_code, code_files>>

bootstrap_split_sections_into_fragment_streams ==
    /\ failed_runs <= MaxFailedRuns
    /\ IF parser_state # 3 THEN BootstrapOutOfSequence
       ELSE LET r == split_sections(document_section, 1, fragment)
            IN /\ fragment' = r.fragments
               /\ Finish(r.err, 4)
               /\ UNCHANGED <<files, document_section, code_section_name, non_root,
                              resolved_code, code_files>>

bootstrap_collect_full_section_names ==
    /\ failed_runs <= MaxFailedRuns
    /\ IF parser_state # 4 THEN BootstrapOutOfSequence
       ELSE /\ code_section_name' = code_section_name
                    \cup search_for_unabbreviated_names(document_section, fragment)
            /\ Finish(NoError, 5)
            /\ UNCHANGED <<files, document_section, fragment, non_root,
                           resolved_code, code_files>>

bootstrap_resolve_all_abbreviations ==
    /\ failed_runs <= MaxFailedRuns
    /\ IF parser_state # 5 THEN BootstrapOutOfSequence
       ELSE LET s == bootstrap_fix_abbreviations(
                         Cardinality(bootstrap_find_code_sections(document_section)),
                         code_section_name)
                f == IF s # NoError THEN s
                     ELSE bootstrap_fix_abbreviations(
                              Cardinality(bootstrap_find_reference_fragments(fragment)),
                              code_section_name)
            IN /\ Finish(f, 6)
               /\ UNCHANGED <<files, document_section, fragment, code_section_name,
                              non_root, resolved_code, code_files>>

bootstrap_group_fragment_streams_by_section_name ==
    /\ failed_runs <= MaxFailedRuns
    /\ IF parser_state # 6 THEN BootstrapOutOfSequence
       ELSE /\ fragment' = assign_fragment_name_ids(fragment, document_section,
                                                    code_section_name)
            /\ Finish(NoError, 7)
            /\ UNCHANGED <<files, document_section, code_section_name, non_root,
                           resolved_code, code_files>>

bootstrap_resolve_named_code_sections_into_plain_text ==
    /\ failed_runs <= MaxFailedRuns
    /\ IF parser_state # 7 THEN BootstrapOutOfSequence
       ELSE \E order \in Orders(code_section_name) :
              LET r == bootstrap_resolve_in_order(order, non_root, resolved_code)
              IN /\ non_root' = r.non_root
                 /\ resolved_code' =
                        IF r.err # NoError THEN r.resolved
                        ELSE delete_non_root_resolved_code_sections(r.resolved, r.non_root)
                 /\ Finish(r.err, 8)
                 /\ UNCHANGED <<files, document_section, fragment, code_section_name,
                                code_files>>

bootstrap_get_code_files ==
    /\ failed_runs <= MaxFailedRuns
    /\ IF parser_state # 8 THEN BootstrapOutOfSequence
       ELSE /\ code_files' = [returned |-> TRUE, map |-> resolved_code]
            /\ last_error' = NoError
            /\ UNCHANGED <<files, parser_state, document_section, fragment,
                           code_section_name, non_root, resolved_code, failed_runs>>

NextBootstrap ==
    \/ bootstrap_split_source_document_into_sections
    \/ bootstrap_assign_sequence_numbers_to_code_sections
    \/ bootstrap_split_sections_into_fragment_streams
    \/ bootstrap_collect_full_section_names
    \/ bootstrap_resolve_all_abbreviations
    \/ bootstrap_group_fragment_streams_by_section_name
    \/ bootstrap_resolve_named_code_sections_into_plain_text
    \/ bootstrap_get_code_files

SpecBootstrap == Init /\ [][NextBootstrap]_vars

----------------------------------------------------------------------------
(* The corpus as the store holds it *)

\* the names that some code section defines
defined_names ==
    {document_section[i].name : i \in {j \in 1..Len(document_section) :
                                          document_section[j].kind = "code"}}

\* the texts of the code sections that define name, in sequence order
RECURSIVE definitions_from(_, _)
definitions_from(name, id) ==
    IF id > Len(document_section) THEN <<>>
    ELSE (IF document_section[id].kind = "code" /\ document_section[id].name = name
          THEN <<document_section[id].data>> ELSE <<>>)
         \o definitions_from(name, id + 1)

definitions(name) == definitions_from(name, 1)

\* the reference fragments, and those whose owner is a code section
reference_fragments == {i \in 1..Len(fragment) : fragment[i].kind = "reference"}

code_reference_fragments ==
    {i \in reference_fragments : document_section[fragment[i].parent_id].kind = "code"}

\* the names that the code sections of name refer to
references_of(name) ==
    {fragment[i].data : i \in {j \in code_reference_fragments :
                                  document_section[fragment[j].parent_id].name = name}}

\* the names reached from the names of S by following references
RECURSIVE reachable_from(_)
reachable_from(S) ==
    LET T == S \cup UNION {references_of(n) : n \in S}
    IN IF T = S THEN S ELSE reachable_from(T)

\* assembling name meets no undefined name and runs into a name still open
reaches_cycle(name) ==
    /\ reachable_from({name}) \subseteq defined_names
    /\ \E m \in reachable_from({name}) : m \in reachable_from(references_of(m))

\* d1, newline, d2, ..., newline, dk
RECURSIVE joined(_)
joined(texts) ==
    IF texts = <<>> THEN <<>>
    ELSE IF Len(texts) = 1 THEN Head(texts)
    ELSE Head(texts) \o <<NL>> \o joined(Tail(texts))

\* a stage ran as the last call and raised
stage_failed == last_error \notin {NoError, "ParsingTasksCalledOutOfSequence", "AssertionError"}

----------------------------------------------------------------------------
(* C1 *)

\* C1: every text of the output map of a successful tangle ends with exactly
\* one newline: its last character is a newline, the one before it is neither
\* a newline nor a carriage return, and a name whose definitions hold nothing
\* but newlines comes out as a single newline.
C1_OutputEndsWithOneNewline ==
    \A n \in DOMAIN code_files.map :
        LET text == code_files.map[n]
        IN /\ Len(text) >= 1
           /\ text[Len(text)] = NL
           /\ Len(text) >= 2 => text[Len(text) - 1] \notin {NL, CR}
           /\ (\A i \in 1..Len(definitions(n)) :
                  \A k \in 1..Len(definitions(n)[i]) : definitions(n)[i][k] = NL)
              => text = <<NL>>

\* a returned text whose source section ends in blank lines
C1_Witness ==
    /\ code_files.returned
    /\ \E n \in DOMAIN code_files.map :
          /\ definitions(n) = << <<"x", NL, NL>> >>
          /\ code_files.map[n] = <<"x", NL>>

----------------------------------------------------------------------------
(* C2 *)

\* C2: a name defined by k code sections d1..dk that hold no references
\* assembles to d1, newline, d2, ..., newline, dk (then trimmed to one final
\* newline): k-1 separators, also when some di is empty.
C2_DefinitionsJoinedByNewlines ==
    parser_state = 8 =>
        \A n \in DOMAIN resolved_code :
            (references_of(n) = {} /\ \A i \in 1..Len(definitions(n)) :
                                         ~contains(definitions(n)[i], OPEN))
            => resolved_code[n] = end_with_one_newline(joined(definitions(n)))

----------------------------------------------------------------------------
(* C3 *)

\* C3: assembling a name from which the walk over the references runs into a
\* name that is still open fails with CodeSectionRecursion, whichever name of
\* the cycle is assembled, and no text is stored for it.
C3_CycleFailsWithRecursion ==
    parser_state >= 7 =>
        \A n \in code_section_name :
            reaches_cycle(n) =>
                /\ coalesce_fragments(n, <<>>, TRUE, <<>>, <<>>, non_root).err
                       = "CodeSectionRecursionError"
                /\ n \notin DOMAIN resolved_code

\* the assembly of a mutual cycle has just failed
C3_Witness ==
    /\ parser_state = 7
    /\ last_error = "CodeSectionRecursionError"
    /\ reaches_cycle(N_ab)
    /\ N_ac \in references_of(N_ab)
    /\ N_ab \in references_of(N_ac)

----------------------------------------------------------------------------
(* C4 *)

\* the full names that start with the prefix of an abbreviation
prefix_matches(abbreviation) ==
    {n \in code_section_name :
        startswith(n, SubSeq(abbreviation, 1, Len(abbreviation) - 3))}

\* C4: a run of the name resolver rewrites every abbreviated code-section
\* name and reference target to the one full name its prefix matches, and
\* fails with NonUniqueAbbreviation, with no other error and without picking
\* a name, when some abbreviation matches no or several full names.
C4_AbbreviationsResolveUniquely ==
    [][(parser_state = 5 /\ last_error' \notin {"AssertionError",
                                                "ParsingTasksCalledOutOfSequence"})
       => LET abbreviated_sections ==
                  {i \in 1..Len(document_section) :
                      document_section[i].kind = "code"
                      /\ is_abbreviated(document_section[i].name)}
              abbreviated_references ==
                  {i \in reference_fragments : is_abbreviated(fragment[i].data)}
              unique == /\ \A i \in abbreviated_sections :
                              Cardinality(prefix_matches(document_section[i].name)) = 1
                        /\ \A i \in abbreviated_references :
                              Cardinality(prefix_matches(fragment[i].data)) = 1
          IN IF unique
             THEN /\ parser_state' = 6
                  /\ \A i \in abbreviated_sections :
                        document_section'[i].name \in prefix_matches(document_section[i].name)
                  /\ \A i \in abbreviated_references :
                        fragment'[i].data \in prefix_matches(fragment[i].data)
             ELSE /\ parser_state' = 5
                  /\ last_error' = "NonUniqueAbbreviationError"]_vars

----------------------------------------------------------------------------
(* C5 *)

\* the sections and the fragments of the files, as the scan and the split
\* make them
scanned == scan_file(ROOT, <<>>, FALSE, <<>>)

scanned_fragments == split_sections(scanned.sections, 1, <<>>)

scanned_names ==
    {scanned.sections[i].name : i \in {j \in 1..Len(scanned.sections) :
                                          scanned.sections[j].kind = "code"}}

\* the targets of the references of the files: all of them, and those that
\* stand in a code section
scanned_targets(kinds) ==
    {scanned_fragments.fragments[i].data :
        i \in {j \in 1..Len(scanned_fragments.fragments) :
                  /\ scanned_fragments.fragments[j].kind = "reference"
                  /\ scanned.sections[scanned_fragments.fragments[j].parent_id].kind
                         \in kinds}}

reader_ran == code_files.returned \/ last_error # NoError

\* C5 (as stated): when every defined name is the target of a reference that
\* is not escaped, wherever the reference stands, the tangle fails with
\* NoRootCodeSectionsFound and returns no output map.
C5_NoRootsFails ==
    (/\ reader_ran
     /\ scanned.err = NoError
     /\ scanned_fragments.err = NoError
     /\ scanned_names \subseteq scanned_targets({"code", "documentation"}))
    => /\ last_error = "NoRootCodeSectionsFoundError"
       /\ ~code_files.returned

\* C5 (amended): when every defined name is the target of a reference that is
\* not escaped and stands in a code section, the tangle of the in-memory
\* reader fails with NoRootCodeSectionsFound and returns no output map.
C5_NoRootsInCodeFails ==
    (/\ reader_ran
     /\ scanned.err = NoError
     /\ scanned_fragments.err = NoError
     /\ scanned_names \subseteq scanned_targets({"code"}))
    => /\ last_error = "NoRootCodeSectionsFoundError"
       /\ ~code_files.returned
       /\ code_files.map = EmptyMap

\* the reader has refused a file all of whose names are referenced
C5_Witness ==
    /\ last_error = "NoRootCodeSectionsFoundError"
    /\ scanned_names # {}
    /\ scanned_names \subseteq scanned_targets({"code"})

----------------------------------------------------------------------------
(* C6 *)

\* parse_source_file has returned: every stage ran once and none raised
tangled == parser_state = 8 /\ failed_runs = 0

\* C6 (as stated): after the tangle a full name is kept out of the roots
\* exactly when some reference fragment, of a code section or of a
\* documentation section, has it as its target.
C6_RootsAreUnreferencedAnywhere ==
    tangled =>
        \A n \in code_section_name :
            n \notin root_names <=> \E i \in reference_fragments : fragment[i].data = n

\* C6 (amended): after the tangle a full name is kept out of the roots
\* exactly when some reference fragment of a code section has it as its
\* target, and a reference of a documentation section keeps no name out; the
\* roots are the full names less the targets of the code sections.
C6_RootsAreUnreferencedInCode ==
    tangled =>
        /\ \A n \in code_section_name :
              n \notin root_names <=> \E i \in code_reference_fragments : fragment[i].data = n
        /\ root_names = code_section_name
                            \ {fragment[i].data : i \in code_reference_fragments}

\* a tangle with a name that is a root and one that a code section refers to
C6_Witness ==
    /\ tangled
    /\ root_names # {}
    /\ \E i \in code_reference_fragments : fragment[i].data \notin root_names

----------------------------------------------------------------------------
(* C7 *)

\* the section holds tokens, and a backslash stands before each of them
only_escaped(data) ==
    \A k \in 1..Len(data) :
        (k < Len(data) /\ SubSeq(data, k, k + 1) = OPEN) => (k > 1 /\ data[k - 1] = BS)

\* C7: an escaped reference comes out as the text <<name>> without its
\* backslash; a corpus whose references are all escaped raises neither
\* CodeSectionRecursion nor NoSuchCodeSection; and a defined name that only
\* escaped references target stays a root.
C7_EscapedReferenceIsLiteral ==
    /\ parser_state = 8 =>
          \A n \in DOMAIN resolved_code : \A m \in {N_ab, N_ac, N_AB} :
              definitions(n) = << <<BS>> \o Ref(m) >>
              => resolved_code[n] = Ref(m) \o <<NL>>
    /\ (parser_state >= 7
        /\ \A i \in 1..Len(document_section) : only_escaped(document_section[i].data))
       => /\ last_error \notin {"CodeSectionRecursionError", "NoSuchCodeSectionError"}
          /\ non_root = {}
    /\ parser_state = 8 =>
          \A m \in defined_names :
              (\A i \in 1..Len(document_section) :
                  contains(document_section[i].data, Ref(m))
                  => only_escaped(document_section[i].data))
              /\ (\A i \in reference_fragments : fragment[i].data # m)
              => m \in root_names

\* a tangle where the one mention of a defined name is escaped
C7_Witness ==
    /\ parser_state = 8
    /\ definitions(N_ab) = << <<BS>> \o Ref(N_ac) >>
    /\ N_ac \in defined_names
    /\ N_ac \in root_names
    /\ resolved_code[N_ab] = Ref(N_ac) \o <<NL>>

----------------------------------------------------------------------------
(* C8 *)

\* C8: a reference to a name that no code section defines is reported as
\* NoSuchCodeSection and only by the assembly: the error is raised at marker
\* 7 alone, the stages before it pass such a corpus, the assembly never
\* completes on it, and it fails with NoSuchCodeSection when no cycle of
\* references comes first.
C8_NoSuchOnlyAtAssembly ==
    /\ last_error = "NoSuchCodeSectionError" => parser_state = 7
    /\ parser_state = 8 =>
          \A i \in reference_fragments : fragment[i].data \in defined_names
    /\ (parser_state = 7 /\ stage_failed)
       => /\ last_error \in {"NoSuchCodeSectionError", "CodeSectionRecursionError"}
          /\ (\A n \in code_section_name :
                 \A m \in reachable_from({n}) : m \notin reachable_from(references_of(m)))
             => last_error = "NoSuchCodeSectionError"

\* the assembly has just failed at a reference of a code section to a name
\* without a definition
C8_Witness ==
    /\ parser_state = 7
    /\ last_error = "NoSuchCodeSectionError"
    /\ \E i \in code_reference_fragments : fragment[i].data \notin defined_names

----------------------------------------------------------------------------
(* C9 *)

\* C9: a name whose definitions are all empty counts as defined: when
\* NoSuchCodeSection is raised, some full name has no code section at all.
C9_EmptyDefinitionIsDefined ==
    last_error = "NoSuchCodeSectionError" => ~(code_section_name \subseteq defined_names)

----------------------------------------------------------------------------
(* C10 *)

\* A is the one line "  <<B>>" and B the two lines x and y, each defined once
indentation_example(A, B) ==
    /\ parser_state = 8
    /\ definitions(A) = << <<SP, SP>> \o Ref(B) >>
    /\ definitions(B) = << <<"x", NL, "y">> >>
    /\ A \in DOMAIN resolved_code

\* C10 (as stated): root A comes out as x, newline, two spaces, y, newline.
C10_FirstLineWithoutPrefix ==
    \A A, B \in {N_ab, N_ac} :
        indentation_example(A, B) => resolved_code[A] = <<"x", NL, SP, SP, "y", NL>>

\* C10 (amended): root A comes out as two spaces, x, newline, two spaces, y,
\* newline: the two spaces of A's own line stand before the first line of B,
\* which gets no prefix of its own, and every later line of B is prefixed
\* by the two-space indent.
C10_IndentationIsPropagated ==
    \A A, B \in {N_ab, N_ac} :
        indentation_example(A, B)
        => resolved_code[A] = <<SP, SP, "x", NL, SP, SP, "y", NL>>

\* the tangle of the example
C10_Witness ==
    /\ indentation_example(N_ab, N_ac)
    /\ resolved_code[N_ab] = <<SP, SP, "x", NL, SP, SP, "y", NL>>

----------------------------------------------------------------------------
(* C11 *)

\* A is the one line "  <<B>>", B the two lines "<<C>>" and a tab before
\* "<<C>>", and C the two lines y and z, each defined once
nesting_example(A, B, C) ==
    /\ parser_state = 8
    /\ definitions(A) = << <<SP, SP>> \o Ref(B) >>
    /\ definitions(B) = << Ref(C) \o <<NL, TAB>> \o Ref(C) >>
    /\ definitions(C) = << <<"y", NL, "z">> >>
    /\ A \in DOMAIN resolved_code

\* the text with indent put after every newline that text follows
RECURSIVE indented(_, _)
indented(text, indent) ==
    IF text = <<>> THEN <<>>
    ELSE IF Head(text) = NL /\ Len(text) > 1
    THEN <<NL>> \o indent \o indented(Tail(text), indent)
    ELSE <<Head(text)>> \o indented(Tail(text), indent)

\* C11: the indents of nested references add up.  A name reached through
\* one reference with indent w, whose definitions are text that does not end
\* in a newline, has w before each of its lines that follows a newline and
\* nothing before its first line, which goes on the line of the reference;
\* reached through the indents "  " and then "" or a tab, the
\* lines after a newline are prefixed by the two spaces, or by the two spaces
\* and the tab: the inner reference neither drops nor replaces the indent of
\* the outer one.
C11_IndentationIsAdditive ==
    /\ \A A, B, C \in code_section_name :
          nesting_example(A, B, C)
          => resolved_code[A] = <<SP, SP, "y", NL, SP, SP, "z", NL,
                                  SP, SP, TAB, "y", NL, SP, SP, TAB, "z", NL>>
    /\ parser_state = 8 =>
          \A A \in DOMAIN resolved_code : \A B \in defined_names :
              \A w \in {<<>>, <<SP, SP>>, <<TAB>>} :
                  (/\ definitions(A) = <<w \o Ref(B)>>
                   /\ references_of(B) = {}
                   /\ \A i \in 1..Len(definitions(B)) :
                          /\ ~contains(definitions(B)[i], OPEN)
                          /\ definitions(B)[i] # <<>>
                          /\ ~endswith(definitions(B)[i], <<NL>>))
                  => resolved_code[A]
                         = end_with_one_newline(w \o indented(joined(definitions(B)), w))

\* the tangle of the nested example
C11_Witness ==
    /\ nesting_example(N_ab, N_ac, N_nb)
    /\ resolved_code[N_ab] = <<SP, SP, "y", NL, SP, SP, "z", NL,
                               SP, SP, TAB, "y", NL, SP, SP, TAB, "z", NL>>

----------------------------------------------------------------------------
(* C12 *)

\* C12: every stage and get_code_files take effect only when the marker is
\* the state its predecessor produced.  In every step the marker stays or
\* advances by one, and advances only without an error; a step that ends in
\* the out-of-sequence error changes nothing else; and each table changes
\* only in a step taken from the state of a stage that writes it: the
\* sections from 1, 2 and 5, the fragments from 3, 5 and 6, the names from
\* 4, the non-root marks and the resolved text from 7, and the returned map
\* from 8.
C12_StagesAreGated ==
    [][/\ parser_state' \in {parser_state, parser_state + 1}
       /\ parser_state' = parser_state + 1 => last_error' = NoError
       /\ last_error' = "ParsingTasksCalledOutOfSequence"
              => UNCHANGED <<files, parser_state, document_section, fragment,
                             code_section_name, non_root, resolved_code,
                             failed_runs, code_files>>
       /\ document_section' # document_section => parser_state \in {1, 2, 5}
       /\ fragment' # fragment => parser_state \in {3, 5, 6}
       /\ code_section_name' # code_section_name => parser_state = 4
       /\ (non_root' # non_root \/ resolved_code' # resolved_code) => parser_state = 7
       /\ code_files' # code_files => parser_state = 8
       /\ (parser_state' # parser_state \/ failed_runs' # failed_runs)
              => last_error' # "ParsingTasksCalledOutOfSequence"]_vars

\* a stage was called out of sequence after the whole pipeline had run and
\* the map had been returned
C12_Witness ==
    /\ parser_state = 8
    /\ failed_runs = 0
    /\ code_files.returned
    /\ code_files.map # EmptyMap
    /\ last_error = "ParsingTasksCalledOutOfSequence"

----------------------------------------------------------------------------
(* C13 *)

\* the files that the include lines of file f name
included_files(f) ==
    LET lines == file_lines(universal_newlines(files[f]))
    IN {realpath(joinpath(parent_of(f), INCLUDE_STATEMENT_PATTERN(lines[i]).group1)) :
           i \in {j \in 1..Len(lines) : INCLUDE_STATEMENT_PATTERN(lines[j]).matched}}

\* the files reached from those of S by following include lines
RECURSIVE files_reached(_)
files_reached(S) ==
    LET T == S \cup UNION {included_files(f) : f \in S \cap DOMAIN files}
    IN IF T = S THEN S ELSE files_reached(T)

\* a file reached from the root file is reached again from its own includes
include_cycle ==
    \E f \in files_reached({ROOT}) \cap DOMAIN files : f \in files_reached(included_files(f))

\* no start line of a file reached from the root file has a bad name
every_start_line_is_good ==
    \A f \in files_reached({ROOT}) \cap DOMAIN files :
        LET lines == file_lines(universal_newlines(files[f]))
        IN \A i \in 1..Len(lines) :
              LET code_start == CODE_BLOCK_START_PATTERN(lines[i])
              IN code_start.matched
                 => /\ strip(code_start.group1) # <<>>
                    /\ ~BAD_SECTION_NAME_PATTERN(strip(code_start.group1))

\* C13 (as stated): when the files reached from the root file exist, their
\* start lines are good and a file includes a file that is still open,
\* itself or one of those that include it, the scan never succeeds and the
\* only error it ends with is FileIncludeRecursion.
C13_IncludeOfOpenFileIsRefused ==
    (/\ parser_state > 1 \/ failed_runs > 0
     /\ files_reached({ROOT}) \subseteq DOMAIN files
     /\ every_start_line_is_good
     /\ include_cycle)
    => /\ parser_state = 1
       /\ last_error \in {"FileIncludeRecursionError", "ParsingTasksCalledOutOfSequence"}

----------------------------------------------------------------------------
(* C14 *)

\* C14 (as stated): no code section and no reference fragment has a name
\* that is empty or holds << or >>: the scan and the split raise
\* BadSectionName before they write one.
C14_BadNamesAreRejected ==
    /\ \A i \in 1..Len(document_section) :
          document_section[i].kind = "code"
          => /\ document_section[i].name # <<>>
             /\ ~BAD_SECTION_NAME_PATTERN(document_section[i].name)
    /\ \A i \in 1..Len(fragment) :
          fragment[i].kind = "reference"
          => /\ fragment[i].data # <<>>
             /\ ~BAD_SECTION_NAME_PATTERN(fragment[i].data)

----------------------------------------------------------------------------
(* C15 *)

\* the abbreviated names that the resolver looks up: those of code sections
\* and those of references
abbreviations ==
    {document_section[i].name : i \in {j \in 1..Len(document_section) :
          /\ document_section[j].kind = "code"
          /\ is_abbreviated(document_section[j].name)}}
    \cup {fragment[i].data : i \in {j \in reference_fragments :
                                        is_abbreviated(fragment[j].data)}}

\* C15 (as stated): when the full names have been collected, the candidates
\* of every abbreviation are the full names that start with its prefix,
\* character for character.
C15_CandidatesStartWithThePrefix ==
    parser_state = 5 =>
        \A a \in abbreviations :
            resolve_abbreviation(code_section_name, SubSeq(a, 1, Len(a) - 3))
                = prefix_matches(a)

----------------------------------------------------------------------------
(* C16 *)

\* the names of the code sections that do not end in "..."
full_section_names ==
    {document_section[i].name : i \in {j \in 1..Len(document_section) :
          /\ document_section[j].kind = "code"
          /\ ~is_abbreviated(document_section[j].name)}}

\* the targets not ending in "..." of the fragments of the kinds given
full_targets(kinds) ==
    {fragment[i].data : i \in {j \in 1..Len(fragment) :
          fragment[j].kind \in kinds /\ ~is_abbreviated(fragment[j].data)}}

\* C16 (as stated): the full-name set is the union of the code-section
\* names and of the targets of references and escaped references that do
\* not end in "...".
C16_FullNamesIncludeEscapedTargets ==
    parser_state >= 5 =>
        code_section_name
            = full_section_names \cup full_targets({"reference", "escaped reference"})

\* C16 (amended): the full-name set is the union of the code-section names
\* and of the targets of the references that are not escaped, as far as they
\* do not end in "..."; a full name that occurs only as the target of an
\* escaped reference is not a member, and after the abbreviations were
\* resolved every code-section name and every target of a reference that is
\* not escaped is a member, so that such a name is the match of none.
C16_FullNamesAreDefinedOrReferenced ==
    /\ parser_state >= 5 =>
          /\ code_section_name = full_section_names \cup full_targets({"reference"})
          /\ \A n \in full_targets({"escaped reference"}) :
                n \notin full_section_names \cup full_targets({"reference"})
                => n \notin code_section_name
    /\ parser_state >= 6 =>
          /\ \A i \in 1..Len(document_section) :
                document_section[i].kind = "code"
                => document_section[i].name \in code_section_name
          /\ \A i \in reference_fragments : fragment[i].data \in code_section_name

\* the abbreviation a... finds no full name although an escaped reference
\* names ac
C16_Witness ==
    /\ parser_state = 5
    /\ last_error = "NonUniqueAbbreviationError"
    /\ N_a \in abbreviations
    /\ N_ac \in full_targets({"escaped reference"})
    /\ N_ac \notin code_section_name
    /\ resolve_abbreviation(code_section_name, <<"a">>) = {}

----------------------------------------------------------------------------
(* C17 *)

\* the full name that the resolver finds for a name
full_name_of(name) ==
    IF is_abbreviated(name)
    THEN CHOOSE n \in resolve_abbreviation(code_section_name,
                                           SubSeq(name, 1, Len(name) - 3)) : TRUE
    ELSE name

\* the text of a section with the full name in place of the abbreviation in
\* every reference token that is not escaped
RECURSIVE unabbreviated_data(_, _)
unabbreviated_data(data, from) ==
    LET match == CODE_BLOCK_REFERENCE_PATTERN(data, from)
    IN IF ~match.matched THEN DropTo(data, from)
       ELSE LET before == SubSeq(data, from, match.start - 1)
                name == strip(match.name)
            IN before
               \o (IF ~endswith(before, <<BS>>) /\ is_abbreviated(name)
                   THEN OPEN \o full_name_of(name) \o CLOSE
                   ELSE SubSeq(data, match.start, match.end - 1))
               \o unabbreviated_data(data, match.end)

\* the sections that the scan makes of the files written without
\* abbreviations: full names in the start lines and in the reference tokens
unabbreviated_sections ==
    LET sections == scanned.sections
    IN [i \in 1..Len(sections) |->
          [kind |-> sections[i].kind,
           is_included |-> sections[i].is_included,
           name |-> IF sections[i].kind = "code" THEN full_name_of(sections[i].name)
                    ELSE sections[i].name,
           data |-> unabbreviated_data(sections[i].data, 1),
           presentation_number |-> 0]]

\* the name has a definition whose start line abbreviates it
has_abbreviated_definition(n) ==
    LET sections == scanned.sections
    IN \E i \in 1..Len(document_section) :
          /\ document_section[i].kind = "code"
          /\ document_section[i].name = n
          /\ is_abbreviated(sections[i].name)

\* C17: abbreviations are transparent.  Once the abbreviations are resolved,
\* the names of the sections, the fragments and the full-name set are those
\* of the same files written with the full name in place of every
\* abbreviation, in start lines and in reference tokens; the later stages
\* read nothing else, so the output map is the same.  A definition whose
\* start line abbreviates the name is concatenated with the other
\* definitions of the name in sequence order.
C17_AbbreviationIsTransparent ==
    /\ (parser_state >= 6 /\ failed_runs = 0) =>
          LET sections == unabbreviated_sections
              fragments == split_sections(sections, 1, <<>>).fragments
          IN /\ Len(document_section) = Len(sections)
             /\ \A i \in 1..Len(document_section) :
                   /\ document_section[i].name = sections[i].name
                   /\ document_section[i].kind = sections[i].kind
                   /\ document_section[i].is_included = sections[i].is_included
             /\ code_section_name = search_for_unabbreviated_names(sections, fragments)
             /\ fix_code_section_names(sections, 1, code_section_name)
                   = [sections |-> sections, err |-> NoError]
             /\ fix_reference_fragment_names(fragments, 1, code_section_name)
                   = [fragments |-> fragments, err |-> NoError]
             /\ fragment = IF parser_state = 6 THEN fragments
                           ELSE assign_fragment_name_ids(fragments, sections,
                                                         code_section_name)
    /\ tangled =>
          \A n \in DOMAIN resolved_code :
              (/\ has_abbreviated_definition(n)
               /\ \A i \in 1..Len(definitions(n)) :
                      /\ ~contains(definitions(n)[i], OPEN)
                      /\ definitions(n)[i] # <<>>)
              => resolved_code[n] = end_with_one_newline(joined(definitions(n)))

\* the tangle of the file that defines ac as ac and as a... and refers to it
\* as a...
C17_Witness ==
    /\ tangled
    /\ has_abbreviated_definition(N_ac)
    /\ definitions(N_ac) = << <<"x">>, <<"y">> >>
    /\ \E i \in reference_fragments :
          /\ scanned_fragments.fragments[i].data = N_a
          /\ fragment[i].data = N_ac
    /\ resolved_code = (N_nb :> <<SP, SP, "x", NL, SP, SP, "y", NL>>)
                          @@ (N_ac :> <<"x", NL, "y", NL>>)

----------------------------------------------------------------------------
(* C18 *)

\* the outcomes of the last stage of a first run, one for each order in which
\* the names can come
outcomes_of_resolving ==
    {resolve_in_order(order, non_root, resolved_code) : order \in Orders(root_names)}

----------------------------------------------------------------------------
(* C19 *)

\* the outcomes of the strategy that resolves every full name and then
\* deletes the results of the non-root names, run on the tables of a first run
outcomes_of_resolving_all ==
    {LET r == bootstrap_resolve_in_order(order, non_root, resolved_code)
     IN [err |-> r.err,
         resolved |-> IF r.err # NoError THEN r.resolved
                      ELSE delete_non_root_resolved_code_sections(r.resolved, r.non_root)] :
        order \in Orders(code_section_name)}

\* C19 (as stated): on the same tables the strategy that resolves every
\* name and deletes the results of the non-root names and the strategy that
\* resolves the root names both fail or both succeed, and when they succeed
\* they leave the same output map.
C19_StrategiesAgree ==
    (parser_state = 7 /\ failed_runs = 0) =>
        \A all \in outcomes_of_resolving_all : \A roots \in outcomes_of_resolving :
            /\ all.err = NoError <=> roots.err = NoError
            /\ all.err = NoError => all.resolved = roots.resolved

----------------------------------------------------------------------------
(* C20 *)

\* C20 (as stated): when the fragments are grouped, and from then on, every
\* root name is defined by a code section, and the last stage never fails
\* with NoSuchCodeSection at the top level, for a root name itself.
C20_EveryRootIsDefined ==
    /\ parser_state >= 7 => root_names \subseteq defined_names
    /\ (parser_state = 7 /\ failed_runs = 0) =>
          \A n \in root_names :
              ~(/\ ~name_has_a_definition(n)
                /\ coalesce_fragments(n, <<>>, TRUE, <<>>, <<>>, non_root).err
                       = "NoSuchCodeSectionError")

----------------------------------------------------------------------------
(* C21 *)

\* the presentation numbers of the code sections, in the order of the
\* sections
code_section_presentation_numbers ==
    LET ids == SelectSeq([i \in 1..Len(document_section) |-> i],
                         LAMBDA i : document_section[i].kind = "code")
    IN [k \in 1..Len(ids) |-> document_section[ids[k]].presentation_number]

\* C21 (as stated): once the numbering stage has run, a section has a
\* presentation number exactly when it is a code section, of the root file
\* or of an included file, and the numbers of the code sections in document
\* order are 1, 2, ..., n.
C21_CodeSectionsAreNumbered ==
    parser_state >= 3 =>
        /\ \A i \in 1..Len(document_section) :
              document_section[i].presentation_number # 0
              <=> document_section[i].kind = "code"
        /\ code_section_presentation_numbers
              = [k \in 1..Len(code_section_presentation_numbers) |-> k]

----------------------------------------------------------------------------
(* C22 *)

\* a line that ends the section before it
is_boundary(line) ==
    \/ CODE_BLOCK_START_PATTERN(line).matched
    \/ DOCUMENTATION_BLOCK_START_PATTERN(line)
    \/ INCLUDE_STATEMENT_PATTERN(line).matched

\* the lines from the k-th on, up to the next boundary or the end of the file
RECURSIVE content_from(_, _)
content_from(lines, k) ==
    IF k > Len(lines) \/ is_boundary(lines[k]) THEN <<>>
    ELSE lines[k] \o content_from(lines, k + 1)

\* the text less one newline at its end
without_final_newline(text) ==
    IF endswith(text, <<NL>>) THEN SubSeq(text, 1, Len(text) - 1) ELSE text

\* the contents of the code sections of the root file, one for each start
\* line
root_code_contents ==
    LET lines == file_lines(universal_newlines(files[ROOT]))
        starts == SelectSeq([k \in 1..Len(lines) |-> k],
                            LAMBDA k : CODE_BLOCK_START_PATTERN(lines[k]).matched)
    IN [j \in 1..Len(starts) |-> without_final_newline(content_from(lines, starts[j] + 1))]

\* the texts of the code sections that the scan made of the root file
root_code_sections ==
    LET ids == SelectSeq([i \in 1..Len(document_section) |-> i],
                         LAMBDA i : /\ document_section[i].kind = "code"
                                    /\ ~document_section[i].is_included)
    IN [j \in 1..Len(ids) |-> document_section[ids[j]].data]

\* C22: the content of a code section is the lines after its start line up
\* to the next start line, lone @, include line or the end of the file,
\* whichever comes first; the lines x and y of ab give the text x, y of ab
\* whatever ends them; and the line d that follows a lone @ or an include
\* line, also where the included file ends in a code section, is in no text
\* of the output.
C22_SectionBoundaries ==
    /\ (parser_state >= 2 /\ failed_runs = 0) => root_code_sections = root_code_contents
    /\ tangled =>
          /\ (files[ROOT] \in BoundaryCases
                  \cup {StartLine(N_ab) \o Line(<<"x">>) \o Line(<<"y">>)})
             => /\ N_ab \in DOMAIN resolved_code
                /\ resolved_code[N_ab] = <<"x", NL, "y", NL>>
          /\ (/\ files[ROOT] \in BoundaryCases
              /\ ~contains(files[ROOT], StartLine(N_ac)))
             => \A n \in DOMAIN resolved_code : ~contains(resolved_code[n], <<"d">>)

\* the tangle of the file whose section ab ends at an include line, the
\* included file ending in the code section ac
C22_Witness ==
    /\ tangled
    /\ files[ROOT] \in BoundaryCases
    /\ INCLUDED \in DOMAIN files
    /\ files[INCLUDED] = StartLine(N_ac) \o Line(<<"y">>)
    /\ resolved_code = (N_ab :> <<"x", NL, "y", NL>>) @@ (N_ac :> <<"y", NL>>)

----------------------------------------------------------------------------
(* C23 *)

\* every name that is defined is the target of a reference in some code
\* section
every_defined_name_is_referenced ==
    defined_names \subseteq UNION {references_of(n) : n \in defined_names}

\* every target of a reference is defined
every_referenced_name_is_defined ==
    {fragment[i].data : i \in reference_fragments} \subseteq defined_names

----------------------------------------------------------------------------
(* C24 *)

\* the number of references in the code sections of name
number_of_references(name) ==
    Cardinality({i \in code_reference_fragments :
                    document_section[fragment[i].parent_id].name = name})

\* the number of references in the sections of the names last opened
RECURSIVE references_in(_)
references_in(stacks) ==
    IF stacks = <<>> THEN 0
    ELSE number_of_references(Head(stacks)[Len(Head(stacks))]) + references_in(Tail(stacks))

\* the list names the sections from name down to the one being expanded,
\* each referred to by the one before it
is_chain_from(name, stack) ==
    /\ stack # <<>>
    /\ stack[1] = name
    /\ \A i \in 1..(Len(stack) - 1) : stack[i + 1] \in references_of(stack[i])

\* a name is put on top of names that were open before
is_prefix(s, t) == Len(s) <= Len(t) /\ SubSeq(t, 1, Len(s)) = s

\* C24: while a name is assembled the list of open names is the chain of
\* references from that name to the one being expanded, a name is put on
\* the names that were open when its reference was met, and the list is
\* empty again when the assembly returns; the assembly fails with
\* CodeSectionRecursion only where the references lead into a cycle; an
\* assembly that succeeds expands a name once for each reference met; a name
\* referred to twice in one section or from two branches is assembled, each
\* reference giving its text.
C24_RecursionHasNoFalsePositives ==
    /\ parser_state >= 7 =>
          \A n \in code_section_name :
              LET r == coalesce_fragments(n, <<>>, TRUE, <<>>, <<>>, non_root)
              IN /\ \A k \in 1..Len(r.opened) : is_chain_from(n, r.opened[k])
                 /\ \A k \in 1..(Len(r.opened) - 1) :
                        is_prefix(SubSeq(r.opened[k + 1], 1, Len(r.opened[k + 1]) - 1),
                                  r.opened[k])
                 /\ r.err = NoError =>
                        /\ r.name_stack = <<>>
                        /\ Len(r.opened) = 1 + references_in(r.opened)
                 /\ r.err = "CodeSectionRecursionError" =>
                        \E m \in reachable_from({n}) : m \in reachable_from(references_of(m))
    /\ (tangled /\ files[ROOT] \in RepeatCases) =>
          /\ N_ab \in DOMAIN resolved_code
          /\ resolved_code[N_ab] = <<"x", NL, "x", NL>>

\* the tangle of the graph in which nb is referred to from ab and from ac
C24_Witness ==
    /\ tangled
    /\ files[ROOT] \in RepeatCases
    /\ N_nb \in references_of(N_ab) \cap references_of(N_ac)
    /\ coalesce_fragments(N_ab, <<>>, TRUE, <<>>, <<>>, non_root).opened
          = << <<N_ab>>, <<N_ab, N_ac>>, <<N_ab, N_ac, N_nb>>, <<N_ab, N_nb>> >>
    /\ resolved_code[N_ab] = <<"x", NL, "x", NL>>

----------------------------------------------------------------------------
(* C25 *)

\* no name is twice in the list
has_no_name_twice(stack) ==
    \A i, j \in 1..Len(stack) : stack[i] = stack[j] => i = j

\* C25: the assembly of every name ends, with a text, with
\* CodeSectionRecursion or with NoSuchCodeSection; every value that the list
\* of open names takes on the way holds no name twice and no more names than
\* there are full names, also where the references form a cycle.
C25_AssemblyTerminates ==
    parser_state >= 7 =>
        \A n \in code_section_name :
            LET r == coalesce_fragments(n, <<>>, TRUE, <<>>, <<>>, non_root)
            IN /\ r.err \in {NoError, "CodeSectionRecursionError", "NoSuchCodeSectionError"}
               /\ \A k \in 1..Len(r.opened) :
                     /\ has_no_name_twice(r.opened[k])
                     /\ Len(r.opened[k]) <= Cardinality(code_section_name)

\* the assembly over a cycle of two names has failed with both names open
C25_Witness ==
    /\ parser_state = 7
    /\ last_error = "CodeSectionRecursionError"
    /\ Cardinality(code_section_name) = 2
    /\ \E n \in code_section_name :
          LET r == coalesce_fragments(n, <<>>, TRUE, <<>>, <<>>, non_root)
          IN /\ r.err = "CodeSectionRecursionError"
             /\ \E k \in 1..Len(r.opened) : Len(r.opened[k]) = 2

----------------------------------------------------------------------------
(* C26 *)

\* C26 (as stated): a stage that fails with a pipeline error leaves the
\* marker as it found it; after such a failure every call fails as out of
\* sequence, so that the marker moves no more and no map is ever returned.
C26_NoOutputFromFailedTangle ==
    [][/\ (failed_runs' > failed_runs) => (stage_failed' /\ parser_state' = parser_state)
       /\ (failed_runs >= 1) =>
             /\ parser_state' = parser_state
             /\ ~code_files'.returned]_vars

----------------------------------------------------------------------------
(* C27 *)

\* C27: in every step the marker stays or goes up by one, never down and
\* never beyond the last state; it goes up only in a call that raises
\* nothing, and every call before the last state that raises nothing takes
\* it up, so that the seven stages of parse_source_file run without an error
\* leave it at the last state; and a map is returned only in a step taken in
\* the last state, which leaves the marker there.
C27_MarkerIsMonotonic ==
    [][/\ parser_state' >= parser_state
       /\ parser_state' <= parser_state + 1
       /\ parser_state' \in 1..8
       /\ parser_state' > parser_state => (last_error' = NoError /\ failed_runs' = failed_runs)
       /\ (last_error' = NoError /\ parser_state < 8) => parser_state' = parser_state + 1
       /\ code_files'.returned =>
             /\ parser_state = 8
             /\ parser_state' = 8]_vars

\* parse_source_file has run without an error and the map of its texts has
\* been returned
C27_Witness ==
    /\ tangled
    /\ last_error = NoError
    /\ code_files.returned
    /\ code_files.map = resolved_code
    /\ N_ab \in DOMAIN resolved_code

----------------------------------------------------------------------------
(* C28 *)

\* C28 (as stated): whatever calls were made, failed and repeated ones
\* included, the store holds no more sections than one scan of the files
\* writes and no more fragments than one split of its sections writes.
C28_WritesAppliedOnce ==
    /\ Len(document_section) <= Len(scanned.sections)
    /\ Len(fragment) <= Len(split_sections(document_section, 1, <<>>).fragments)

----------------------------------------------------------------------------
(* C29 *)

\* C29: once the abbreviations are resolved, no name of a code section and
\* no target of a reference that is not escaped ends in "...", and each is
\* in the set of full names; the stage that resolves them leaves that set
\* as it was, and it leaves every plain-text fragment, every escaped
\* reference, also one whose target ends in "...", every section and every
\* reference whose name was full, and every documentation section as they
\* were, changing nothing but the name of a section and the target of a
\* reference.
C29_ResolutionRewritesAbbreviationsOnly ==
    /\ [](parser_state >= 6 =>
            /\ \A i \in 1..Len(document_section) :
                  document_section[i].kind = "code" =>
                      /\ ~is_abbreviated(document_section[i].name)
                      /\ document_section[i].name \in code_section_name
            /\ \A i \in reference_fragments :
                  /\ ~is_abbreviated(fragment[i].data)
                  /\ fragment[i].data \in code_section_name
            /\ \A n \in code_section_name : ~is_abbreviated(n))
    /\ [][(parser_state = 5 /\ parser_state' = 6) =>
            /\ code_section_name' = code_section_name
            /\ Len(document_section') = Len(document_section)
            /\ Len(fragment') = Len(fragment)
            /\ \A i \in 1..Len(document_section) :
                  /\ [document_section'[i] EXCEPT !.name = document_section[i].name]
                        = document_section[i]
                  /\ (document_section[i].kind # "code"
                        \/ ~is_abbreviated(document_section[i].name))
                     => document_section'[i] = document_section[i]
            /\ \A i \in 1..Len(fragment) :
                  /\ [fragment'[i] EXCEPT !.data = fragment[i].data] = fragment[i]
                  /\ (fragment[i].kind # "reference" \/ ~is_abbreviated(fragment[i].data))
                     => fragment'[i] = fragment[i]]_vars

\* the abbreviated name of a section was resolved to ab and the escaped
\* reference to a... in the section before it is as it was written
C29_Witness ==
    /\ parser_state = 6
    /\ failed_runs = 0
    /\ Len(document_section) = 2
    /\ document_section[2].name = N_ab
    /\ \E i \in 1..Len(fragment) :
          fragment[i].kind = "escaped reference" /\ fragment[i].data = N_a

----------------------------------------------------------------------------
(* C30 *)

\* the texts that the code sections of the root file have gathered when they
\* are closed, one for each start line
root_code_accumulated ==
    LET lines == file_lines(universal_newlines(files[ROOT]))
        starts == SelectSeq([k \in 1..Len(lines) |-> k],
                            LAMBDA k : CODE_BLOCK_START_PATTERN(lines[k]).matched)
    IN [j \in 1..Len(starts) |-> content_from(lines, starts[j] + 1)]

====
